---------------------------- MODULE Spec2Model ----------------------------
(***************************************************************************)
(* Model of the incremental HTTP/1.1 request parser of httpfromtcp:        *)
(* internal/headers (Headers.Get/Set/Add/Delete/Parse) and                 *)
(* internal/request (ParseRequestLine, parseSingle, parse,                 *)
(* RequestFromReader).                                                     *)
(*                                                                         *)
(* A byte is a one-character string, a []byte or a Go string is a sequence *)
(* of bytes.  Only ASCII bytes occur, so utf8.DecodeRune always yields a   *)
(* rune of size 1.                                                         *)
(***************************************************************************)
EXTENDS Integers, Sequences, FiniteSets, TLC

(***************************************************************************)
(* Bytes, Go standard-library helpers                                      *)
(***************************************************************************)
UpperLetters == <<"A","B","C","D","E","F","G","H","I","J","K","L","M",
                  "N","O","P","Q","R","S","T","U","V","W","X","Y","Z">>
LowerLetters == <<"a","b","c","d","e","f","g","h","i","j","k","l","m",
                  "n","o","p","q","r","s","t","u","v","w","x","y","z">>
Digits == <<"0","1","2","3","4","5","6","7","8","9">>

Range(s) == {s[i] : i \in 1..Len(s)}

\* unicode.IsUpper on an ASCII rune
IsUpper(c) == c \in Range(UpperLetters)

\* unicode.IsSpace on an ASCII rune, as bytes.TrimSpace uses it (no byte of
\* the model is a vertical tab)
IsSpace(c) == c \in {" ", "\t", "\n", "\r", "\f"}

\* unicode.ToLower on an ASCII rune
ToLowerByte(c) ==
    IF IsUpper(c)
    THEN LowerLetters[CHOOSE i \in 1..Len(UpperLetters) : UpperLetters[i] = c]
    ELSE c

\* strings.ToLower
ToLower(s) == [i \in 1..Len(s) |-> ToLowerByte(s[i])]

Min(a, b) == IF a < b THEN a ELSE b

\* s[from:to] of Go, 0-based, to exclusive
Slice(s, from, to) == SubSeq(s, from + 1, to)

\* bytes.Index: 0-based offset of the first occurrence of sep in s, or -1
Index(s, sep) ==
    LET cands == {i \in 0..(Len(s) - Len(sep)) : Slice(s, i, i + Len(sep)) = sep}
    IN  IF cands = {} THEN -1
        ELSE CHOOSE i \in cands : \A j \in cands : i <= j

\* bytes.SplitN(s, sep, 2)
SplitN2(s, sep) ==
    LET i == Index(s, sep)
    IN  IF i = -1 THEN <<s>>
        ELSE <<Slice(s, 0, i), Slice(s, i + Len(sep), Len(s))>>

\* bytes.Split(s, sep) for a non-empty sep
RECURSIVE Split(_, _)
Split(s, sep) ==
    LET i == Index(s, sep)
    IN  IF i = -1 THEN <<s>>
        ELSE <<Slice(s, 0, i)>> \o Split(Slice(s, i + Len(sep), Len(s)), sep)

\* bytes.TrimSpace
TrimSpace(s) ==
    LET keep == {i \in 1..Len(s) : ~IsSpace(s[i])}
    IN  IF keep = {} THEN <<>>
        ELSE SubSeq(s, CHOOSE i \in keep : \A j \in keep : i <= j,
                       CHOOSE i \in keep : \A j \in keep : j <= i)

\* bytes.ContainsAny(s, chars)
ContainsAny(s, chars) == \E i \in 1..Len(s) : s[i] \in chars

DigitVal(c) == (CHOOSE i \in 1..Len(Digits) : Digits[i] = c) - 1

RECURSIVE DecimalValue(_)
DecimalValue(ds) ==
    IF Len(ds) = 0 THEN 0
    ELSE 10 * DecimalValue(SubSeq(ds, 1, Len(ds) - 1)) + DigitVal(ds[Len(ds)])

\* strconv.Atoi: optional sign, then one or more decimal digits
\* (values stay far below the int range, so the range error cannot occur)
Atoi(s) ==
    LET signed == Len(s) > 0 /\ s[1] \in {"+", "-"}
        ds     == IF signed THEN Tail(s) ELSE s
    IN  IF Len(ds) = 0 \/ \E i \in 1..Len(ds) : ds[i] \notin Range(Digits)
        THEN [val |-> 0, err |-> "strconv.Atoi: invalid syntax"]
        ELSE [val |-> IF signed /\ s[1] = "-" THEN 0 - DecimalValue(ds)
                      ELSE DecimalValue(ds),
              err |-> "nil"]

(***************************************************************************)
(* internal/headers                                                        *)
(***************************************************************************)
crfl == <<"\r", "\n">>
ERROR_INVALID_FIELD_LINE == "Invalid field-line"

\* make(Headers): the empty map
NewHeaders == [k \in {} |-> <<>>]

\* Go map read h[key]: the zero value "" for an absent key
MapGet(h, key) == IF key \in DOMAIN h THEN h[key] ELSE <<>>

Get(h, name) == MapGet(h, ToLower(name))

\* Set that stores the name as it is given
Set_AsGiven(h, field_name, field_value) ==
    [k \in (DOMAIN h) \cup {field_name} |-> IF k = field_name THEN field_value ELSE h[k]]

Set(h, field_name, field_value) ==
    LET key == ToLower(field_name)
    IN  [k \in (DOMAIN h) \cup {key} |-> IF k = key THEN field_value ELSE h[k]]

\* Add that replaces the stored value instead of appending to it
Add_Overwrite(h, field_name, field_value) ==
    LET key == ToLower(field_name)
    IN  [k \in (DOMAIN h) \cup {key} |-> IF k = key THEN field_value ELSE h[k]]

Add(h, field_name, field_value) ==
    LET key == ToLower(field_name)
    IN  IF key \in DOMAIN h
        THEN [h EXCEPT ![key] = @ \o <<",", " ">> \o field_value]
        ELSE [k \in (DOMAIN h) \cup {key} |-> IF k = key THEN field_value ELSE h[k]]

Delete(h, field_name) ==
    LET key == ToLower(field_name)
    IN  [k \in (DOMAIN h) \ {key} |-> h[k]]

\* a field-name test that forgets the tab
InvalidParts_SpaceOnly(parts) == Len(parts) # 2 \/ ContainsAny(parts[1], {" "})

\* len(parts) != 2 || bytes.ContainsAny(parts[0], " \t")
InvalidParts(parts) == Len(parts) # 2 \/ ContainsAny(parts[1], {" ", "\t"})

\* Headers.Parse: parses one field line; h is the collection after the call
HeadersParse(h, data) ==
    LET idx    == Index(data, crfl)
        header == Slice(data, 0, idx)
        parts  == SplitN2(header, <<":">>)
    IN  IF idx = -1
        THEN [h |-> h, n |-> 0, done |-> FALSE, err |-> "nil"]
        ELSE IF Len(header) = 0
        THEN [h |-> h, n |-> Len(crfl), done |-> TRUE, err |-> "nil"]
        ELSE IF InvalidParts(parts)
        THEN [h |-> h, n |-> 0, done |-> FALSE, err |-> ERROR_INVALID_FIELD_LINE]
        ELSE [h |-> Add(h, ToLower(parts[1]), TrimSpace(parts[2])),
              n |-> idx + Len(crfl), done |-> FALSE, err |-> "nil"]

(***************************************************************************)
(* internal/request                                                        *)
(***************************************************************************)
CRFL == <<"\r", "\n">>
ERROR_MALFORMED_REQUEST_LINE == "Malformed Request Line Error"
ERROR_READING_IN_DONE_STATE == "Trying to read in a done state"
ERROR_UNDIFINIED_STATE == "Undifiened state"
ERROR_INVALID_CONTENT_LENGTH == "invalid content-length"

StateInit == 0
StateHeaders == 1
StateBody == 2
StateDone == 3

HTTP11 == <<"H","T","T","P","/","1",".","1">>
ContentLengthName == <<"c","o","n","t","e","n","t","-","l","e","n","g","t","h">>

\* the zero value of RequestLine
NoRequestLine == [HttpVersion |-> <<>>, RequestTarget |-> <<>>, Method |-> <<>>]

newRequest ==
    [RequestLine |-> NoRequestLine, State |-> StateInit,
     Headers |-> NewHeaders, Body |-> <<>>]

\* isAllUpper that looks at the first rune only
isAllUpper_FirstOnly(str) ==
    /\ Len(str) # 0
    /\ IsUpper(str[1])

isAllUpper(str) ==
    /\ Len(str) # 0
    /\ \A i \in 1..Len(str) : IsUpper(str[i])

\* ParseRequestLine: rl is the zero RequestLine where the code returns nil
ParseRequestLine(data) ==
    LET splits == SplitN2(data, CRFL)
        rline  == TrimSpace(splits[1])
        parts  == Split(rline, <<" ">>)
    IN  IF Len(splits) # 2
        THEN [rl |-> NoRequestLine, n |-> 0, err |-> "nil"]
        ELSE IF Len(parts) # 3
        THEN [rl |-> NoRequestLine, n |-> 0, err |-> ERROR_MALFORMED_REQUEST_LINE]
        ELSE IF ~isAllUpper(parts[1])
        THEN [rl |-> NoRequestLine, n |-> 0, err |-> ERROR_MALFORMED_REQUEST_LINE]
        ELSE IF parts[3] # HTTP11
        THEN [rl |-> NoRequestLine, n |-> 0, err |-> ERROR_MALFORMED_REQUEST_LINE]
        ELSE [rl |-> [HttpVersion |-> <<"1", ".", "1">>,
                      RequestTarget |-> parts[2],
                      Method |-> parts[1]],
              n |-> Len(splits[1]) + Len(CRFL), err |-> "nil"]

\* an Init step that takes an unterminated request line for a malformed one
InitStep_NoWait(r, data) ==
    LET p == ParseRequestLine(data)
    IN  IF p.err # "nil" \/ p.n = 0
        THEN [r |-> r, n |-> 0, err |-> ERROR_MALFORMED_REQUEST_LINE]
        ELSE [r |-> [r EXCEPT !.State = StateHeaders, !.RequestLine = p.rl],
              n |-> p.n, err |-> "nil"]

\* parseSingle, case StateInit
InitStep(r, data) ==
    LET p == ParseRequestLine(data)
    IN  IF p.err # "nil" THEN [r |-> r, n |-> 0, err |-> p.err]
        ELSE IF p.n = 0 THEN [r |-> r, n |-> 0, err |-> "nil"]
        ELSE [r |-> [r EXCEPT !.State = StateHeaders, !.RequestLine = p.rl],
              n |-> p.n, err |-> "nil"]

\* parseSingle, case StateHeaders
HeadersStep(r, data) ==
    LET p == HeadersParse(r.Headers, data)
    IN  IF p.err # "nil" THEN [r |-> r, n |-> 0, err |-> p.err]
        ELSE [r |-> [r EXCEPT !.Headers = p.h,
                              !.State = IF p.done THEN StateBody ELSE @],
              n |-> p.n, err |-> "nil"]

\* remaining that takes every byte offered
Remaining_All(length, bodyLen, dataLen) == dataLen

\* remaining := min(length-len(r.Body), len(data))
Remaining(length, bodyLen, dataLen) == Min(length - bodyLen, dataLen)

\* parseSingle, case StateBody
BodyStep(r, data) ==
    LET l         == Get(r.Headers, ContentLengthName)
        a         == Atoi(l)
        remaining == Remaining(a.val, Len(r.Body), Len(data))
        body      == r.Body \o Slice(data, 0, remaining)
    IN  IF l = <<>>
        THEN [r |-> [r EXCEPT !.State = StateDone], n |-> 0, err |-> "nil"]
        ELSE IF a.err # "nil" THEN [r |-> r, n |-> 0, err |-> a.err]
        ELSE IF a.val < 0
        THEN [r |-> r, n |-> 0, err |-> ERROR_INVALID_CONTENT_LENGTH]
        ELSE [r |-> [r EXCEPT !.Body = body,
                              !.State = IF Len(body) = a.val
                                        THEN StateDone ELSE @],
              n |-> remaining, err |-> "nil"]

\* a Done case that starts over with the next request
DoneStep_Reset(r, data) == [r |-> [r EXCEPT !.State = StateInit], n |-> 0, err |-> "nil"]

\* parseSingle, case StateDone
DoneStep(r, data) == [r |-> r, n |-> 0, err |-> ERROR_READING_IN_DONE_STATE]

\* Request.parseSingle: r is the request after the call
parseSingle(r, data) ==
    IF r.State = StateInit THEN InitStep(r, data)
    ELSE IF r.State = StateHeaders THEN HeadersStep(r, data)
    ELSE IF r.State = StateBody THEN BodyStep(r, data)
    ELSE IF r.State = StateDone THEN DoneStep(r, data)
    ELSE [r |-> r, n |-> 0, err |-> ERROR_UNDIFINIED_STATE]

\* Request.parse applied to a request r: the drive loop over parseSingle
RECURSIVE parseFrom(_, _, _)
parseFrom(r, data, consumed) ==
    IF r.State = StateDone THEN [r |-> r, n |-> consumed, err |-> "nil"]
    ELSE LET s == parseSingle(r, Slice(data, consumed, Len(data)))
         IN  IF s.err # "nil" THEN [r |-> s.r, n |-> 0, err |-> s.err]
             ELSE IF s.n = 0 THEN [r |-> s.r, n |-> consumed + s.n, err |-> "nil"]
             ELSE parseFrom(s.r, data, consumed + s.n)

parse(r, data) == parseFrom(r, data, 0)

(***************************************************************************)
(* The peer's message.  The peer composes a message from a request line,   *)
(* field lines and a body; the bytes it sends are Build(msg).              *)
(***************************************************************************)
MaxFields == 2     \* longest list of general field lines
MaxBody == 3       \* largest declared content-length and longest body

SP == <<" ">>
GET == <<"G", "E", "T">>

Line(pre, method, sp1, target, sp2, version, post) ==
    [pre |-> pre, method |-> method, sp1 |-> sp1, target |-> target,
     sp2 |-> sp2, version |-> version, post |-> post]

GoodLine == Line(<<>>, GET, SP, <<"/">>, SP, HTTP11, <<>>)

RequestLines ==
    { GoodLine,
      Line(<<>>, <<"P","O","S","T">>, SP, <<"/","a","?","q">>, SP, HTTP11, <<>>),
      Line(SP, GET, SP, <<"/">>, SP, HTTP11, <<"\t">>),
      Line(<<>>, <<"g","e","t">>, SP, <<"/">>, SP, HTTP11, <<>>),
      Line(<<>>, <<"G","e","T">>, SP, <<"/">>, SP, HTTP11, <<>>),
      Line(<<>>, GET, <<" ", " ">>, <<"/">>, <<" ", " ">>, HTTP11, <<>>),
      Line(<<>>, GET, SP, <<"/">>, SP, <<"H","T","T","P","/","2",".","0">>, <<>>),
      Line(<<>>, GET, SP, <<"/">>, SP, <<"h","t","t","p","/","1",".","1">>, <<>>),
      Line(<<>>, GET, SP, <<"/", "\t", "b">>, SP, HTTP11, <<>>),
      Line(<<>>, GET, SP, <<>>, SP, HTTP11, <<>>),
      Line(<<>>, <<>>, SP, <<"/">>, SP, HTTP11, <<>>),
      Line(<<>>, GET, <<"\t">>, <<"/">>, SP, HTTP11, <<>>),
      Line(<<>>, GET, SP, <<"/">>, <<>>, <<>>, <<>>) }

Field(name, sep, lead, core, trail) ==
    [name |-> name, sep |-> sep, lead |-> lead, core |-> core, trail |-> trail]

COLON == <<":">>

GenFields ==
    { Field(<<"a">>, COLON, <<>>, <<"1">>, <<>>),
      Field(<<"A">>, COLON, SP, <<"2">>, <<" ", "\t">>),
      Field(<<"b">>, COLON, SP, <<"x", ":", " ", "y">>, <<>>) }

BadFields ==
    { Field(<<"a", " ", "b">>, COLON, <<>>, <<"1">>, <<>>),
      Field(<<" ", "a">>, COLON, SP, <<"1">>, <<>>),
      Field(<<"a", "\t">>, COLON, SP, <<"1">>, <<>>),
      Field(<<"a", "b">>, <<>>, SP, <<"1">>, <<>>),
      Field(<<"a", "b">>, <<>>, <<>>, <<>>, <<>>) }

\* the decimal representation of a natural number
RECURSIVE Decimal(_)
Decimal(n) ==
    IF n < 10 THEN <<Digits[n + 1]>>
    ELSE Decimal(n \div 10) \o <<Digits[(n % 10) + 1]>>

CLNames == { ContentLengthName,
             <<"C","o","n","t","e","n","t","-","L","e","n","g","t","h">> }

CLField(name, n) == Field(name, COLON, SP, Decimal(n), <<>>)

BadCLCores == { <<>>, <<"-", "1">>, <<"x">>, <<"2", "x">>, <<"-">> }

BodyBytes == <<"x", "\r", "\n", "y", "z", "w", "v", "u", "t", "s", "r", "q">>

Body(k) == SubSeq(BodyBytes, 1, k)

RECURSIVE SeqsUpTo(_, _)
SeqsUpTo(S, n) ==
    IF n = 0 THEN {<<>>}
    ELSE LET shorter == SeqsUpTo(S, n - 1)
         IN  shorter \cup {Append(s, x) : s \in shorter, x \in S}

Msg(line, fields, body) == [line |-> line, fields |-> fields, body |-> body]

Messages ==
    {Msg(l, <<>>, <<>>) : l \in RequestLines}
    \cup {Msg(GoodLine, fs, <<>>) : fs \in SeqsUpTo(GenFields, MaxFields)}
    \cup {Msg(GoodLine, pre \o <<f>>, <<>>) :
            pre \in SeqsUpTo(GenFields, 1), f \in BadFields}
    \cup {Msg(GoodLine, <<CLField(nm, n)>>, Body(k)) :
            nm \in CLNames, n \in 0..MaxBody, k \in 0..(MaxBody + 1)}
    \cup {Msg(GoodLine, <<Field(ContentLengthName, COLON, SP, c, <<>>)>>, Body(k)) :
            c \in BadCLCores, k \in {0, 2}}
    \cup {Msg(GoodLine, <<CLField(ContentLengthName, 2), f>>, Body(2)) :
            f \in {CLField(nm, 2) : nm \in CLNames} \cup GenFields}

BuildLine(l) ==
    l.pre \o l.method \o l.sp1 \o l.target \o l.sp2 \o l.version \o l.post

BuildField(f) == f.name \o f.sep \o f.lead \o f.core \o f.trail

RECURSIVE BuildFields(_)
BuildFields(fs) ==
    IF Len(fs) = 0 THEN <<>>
    ELSE BuildField(Head(fs)) \o CRFL \o BuildFields(Tail(fs))

Build(m) == BuildLine(m.line) \o CRFL \o BuildFields(m.fields) \o CRFL \o m.body


(***************************************************************************)
(* What the peer's message means, read off its composition                 *)
(***************************************************************************)
Whitespace == {" ", "\t", "\n", "\r", "\f"}

HasCRLF(s) == \E i \in 1..(Len(s) - 1) : s[i] = "\r" /\ s[i + 1] = "\n"

\* <METHOD> <target> HTTP/1.1 with an upper-case method and a target token
WellFormedLine(l) ==
    /\ l.pre = <<>> /\ l.post = <<>>
    /\ l.sp1 = SP /\ l.sp2 = SP
    /\ Len(l.method) > 0
    /\ \A i \in 1..Len(l.method) : l.method[i] \in Range(UpperLetters)
    /\ Len(l.target) > 0
    /\ \A i \in 1..Len(l.target) : l.target[i] \notin Whitespace
    /\ l.version = HTTP11

\* <field-name>:<optional whitespace><field-value>
WellFormedField(f) ==
    /\ f.sep = COLON
    /\ Len(f.name) > 0
    /\ \A i \in 1..Len(f.name) : f.name[i] \notin Whitespace \cup {":"}
    /\ \A i \in 1..Len(f.lead) : f.lead[i] \in {" ", "\t"}
    /\ \A i \in 1..Len(f.trail) : f.trail[i] \in {" ", "\t"}
    /\ Len(f.core) > 0 => f.core[1] \notin Whitespace /\ f.core[Len(f.core)] \notin Whitespace
    /\ ~HasCRLF(f.core)

EqualFold(a, b) == ToLower(a) = ToLower(b)

\* the field lines of fs named name, ignoring case, in their order
RECURSIVE Named(_, _)
Named(fs, name) ==
    IF Len(fs) = 0 THEN <<>>
    ELSE (IF EqualFold(Head(fs).name, name) THEN <<Head(fs)>> ELSE <<>>)
         \o Named(Tail(fs), name)

\* the values of the field lines fs joined with ", "
RECURSIVE JoinedValues(_)
JoinedValues(fs) ==
    IF Len(fs) = 0 THEN <<>>
    ELSE IF Len(fs) = 1 THEN fs[1].core
    ELSE fs[1].core \o <<",", " ">> \o JoinedValues(Tail(fs))

ContentLengthFields(m) == Named(m.fields, ContentLengthName)

\* the message declares content-length n, once
Declares(m, n) ==
    /\ Len(ContentLengthFields(m)) = 1
    /\ ContentLengthFields(m)[1].core = Decimal(n)

DeclaredLengths == 0..(MaxBody + 2)

HasDeclared(m) == \E n \in DeclaredLengths : Declares(m, n)

DeclaredLength(m) == CHOOSE n \in DeclaredLengths : Declares(m, n)

WellFormed(m) ==
    /\ WellFormedLine(m.line)
    /\ \A i \in 1..Len(m.fields) : WellFormedField(m.fields[i])
    /\ \/ Len(ContentLengthFields(m)) = 0 /\ m.body = <<>>
       \/ HasDeclared(m) /\ Len(m.body) = DeclaredLength(m)

\* offset in the stream of the first byte after the header-section terminator
HeaderEnd(m) == Len(Build(m)) - Len(m.body)

ExpectedHeaders(fs) ==
    [k \in {ToLower(fs[i].name) : i \in 1..Len(fs)} |-> JoinedValues(Named(fs, k))]

Expected(m) ==
    [RequestLine |-> [HttpVersion |-> <<"1", ".", "1">>,
                      RequestTarget |-> m.line.target,
                      Method |-> m.line.method],
     State |-> StateDone,
     Headers |-> ExpectedHeaders(m.fields),
     Body |-> m.body]

\* the message together with what it means
Meaning(m) ==
    [line |-> m.line, fields |-> m.fields, body |-> m.body,
     wellFormed |-> WellFormed(m),
     declared |-> IF HasDeclared(m) THEN DeclaredLength(m) ELSE -1,
     headerEnd |-> HeaderEnd(m),
     expected |-> Expected(m)]

(***************************************************************************)
(* internal/response: the response writer.  A header collection is a Go    *)
(* map, so the order in which a range loop visits its entries is not       *)
(* specified: operators that range over a collection take the order of     *)
(* the visit as a parameter, and the actions choose it.                    *)
(***************************************************************************)
StatusOK == 200
StatusBadRequest == 400
StatusInternalServerError == 500

\* WriterState (the request parser has states of the same names)
WriterStateInit == 0
StateStatusLine == 1
WriterStateHeaders == 2
WriterStateBody == 3

ERROR_HEADERS_AFTER_BODY == "You can only write headers once, when you write the status line."
ERROR_BODY_BEFORE_HEADERS == "You need to write headers first."
ERROR_TRAILER_NOT_ANNOUNCED == "trailer %s not announced in Trailer header"
ERROR_NO_TRAILERS == "No trailers initilized !"

codeNames ==
    [c \in {StatusOK, StatusBadRequest, StatusInternalServerError} |->
        IF c = StatusOK THEN <<"O","K">>
        ELSE IF c = StatusBadRequest THEN <<"B","a","d"," ","R","e","q","u","e","s","t">>
        ELSE <<"I","n","t","e","r","n","a","l"," ","S","e","r","v","e","r"," ","E","r","r","o","r">>]

\* StatusCode.String
String(s) == IF s \in DOMAIN codeNames THEN codeNames[s] ELSE <<"U","n","k","n","o","w","n"," ","c","o","d","e">>

\* "HTTP/1.1 %d %s\r\n"
StatusLine(statusCode) ==
    <<"H","T","T","P","/","1",".","1"," ">> \o Decimal(statusCode) \o <<" ">> \o String(statusCode) \o <<"\r","\n">>

\* "%s: %s\r\n"
FieldLine(k, v) == k \o <<":"," ">> \o v \o <<"\r","\n">>

\* the orders in which a range loop may visit the entries of h
Orders(h) ==
    {o \in [1..Cardinality(DOMAIN h) -> DOMAIN h] :
        \A k \in DOMAIN h : \E i \in DOMAIN o : o[i] = k}

\* for k, v := range h { fmt.Fprintf(w, "%s: %s\r\n", k, v) }, visiting in order o
RECURSIVE FieldLines(_, _)
FieldLines(h, o) ==
    IF o = <<>> THEN <<>> ELSE FieldLine(Head(o), h[Head(o)]) \o FieldLines(h, Tail(o))

HexDigits == <<"0","1","2","3","4","5","6","7","8","9","A","B","C","D","E","F">>

\* "%X"
RECURSIVE Hex(_)
Hex(n) ==
    IF n < 16 THEN <<HexDigits[n + 1]>>
    ELSE Hex(n \div 16) \o <<HexDigits[(n % 16) + 1]>>

GetDefaultHeaders(contentLen) ==
    Set(Set(Set(NewHeaders, <<"c","o","n","t","e","n","t","-","l","e","n","g","t","h">>, Decimal(contentLen)),
            <<"c","o","n","n","e","c","t","i","o","n">>, <<"c","l","o","s","e">>),
        <<"c","o","n","t","e","n","t","-","t","y","p","e">>, <<"t","e","x","t","/","p","l","a","i","n">>)

NewWriter ==
    [buf |-> <<>>, body |-> <<>>, state |-> WriterStateInit,
     headers |-> GetDefaultHeaders(0), trailers |-> NewHeaders]

\* The methods of Writer: w is the writer before the call, the result holds
\* the writer after the call and the error returned.
WriteStatusLine(w, statusCode) ==
    [w |-> [w EXCEPT !.state = StateStatusLine, !.buf = @ \o StatusLine(statusCode)],
     err |-> "nil"]

DeleteHeader(w, fieldName) == [w EXCEPT !.headers = Delete(@, fieldName)]

WriteHeaders(w, headers) ==
    IF w.state = WriterStateBody
    THEN [w |-> w, err |-> ERROR_HEADERS_AFTER_BODY]
    ELSE [w |-> [w EXCEPT !.state = WriterStateHeaders, !.headers = headers],
          err |-> "nil"]

\* the state test of WriteBody without StateBody
BodyAllowed_HeadersOnly(state) == state = WriterStateHeaders

\* the negation of: w.state != StateHeaders && w.state != StateBody
BodyAllowed(state) == state = WriterStateHeaders \/ state = WriterStateBody

WriteBody(w, p) ==
    IF ~BodyAllowed(w.state)
    THEN [w |-> w, err |-> ERROR_BODY_BEFORE_HEADERS]
    ELSE [w |-> [w EXCEPT !.state = WriterStateBody, !.body = @ \o p], err |-> "nil"]

WriteChunkedBody(w, p) ==
    [w |-> [w EXCEPT !.body = @ \o Hex(Len(p)) \o <<"\r","\n">> \o p \o <<"\r","\n">>],
     n |-> Len(Hex(Len(p))) + 2 + Len(p) + 2,
     err |-> "nil"]

WriteChunkedBodyDone(w) ==
    [w |-> [w EXCEPT !.body = @ \o <<"0","\r","\n">>], n |-> 3, err |-> "nil"]

\* the announced names without the trimming
Announced_NoTrim(val) ==
    LET parts == Split(val, <<",">>)
    IN  {ToLower(parts[i]) : i \in 1..Len(parts)}

\* announced[strings.ToLower(strings.TrimSpace(p))] = true for the parts of val
Announced(val) ==
    LET parts == Split(val, <<",">>)
    IN  {ToLower(TrimSpace(parts[i])) : i \in 1..Len(parts)}

\* the loop of WriteTrailers over the entries of h still to visit, in order o
RECURSIVE StoreTrailers(_, _, _, _)
StoreTrailers(trailers, announced, h, o) ==
    IF o = <<>> THEN [trailers |-> trailers, err |-> "nil"]
    ELSE IF Head(o) \notin announced
         THEN [trailers |-> trailers, err |-> ERROR_TRAILER_NOT_ANNOUNCED]
         ELSE StoreTrailers(Set(trailers, Head(o), h[Head(o)]), announced, h, Tail(o))

WriteTrailers(w, h, o) ==
    IF <<"t","r","a","i","l","e","r">> \in DOMAIN w.headers
    THEN LET s == StoreTrailers(w.trailers, Announced(w.headers[<<"t","r","a","i","l","e","r">>]), h, o)
         IN  [w |-> [w EXCEPT !.trailers = s.trailers], err |-> s.err]
    ELSE [w |-> w, err |-> ERROR_NO_TRAILERS]

\* a Bytes that leaves the trailers out
TrailerSection_Never(headers, trailers, to) == <<>>

\* the trailer section Bytes appends after the body
TrailerSection(headers, trailers, to) ==
    IF Get(headers, <<"t","r","a","n","s","f","e","r","-","e","n","c","o","d","i","n","g">>) = <<"c","h","u","n","k","e","d">> /\ Cardinality(DOMAIN trailers) > 0
    THEN FieldLines(trailers, to) \o <<"\r","\n">>
    ELSE <<>>

\* Bytes that keeps a content-length the handler has set
Bytes_KeepLength(w, ho, to) ==
    LET body    == w.body
        headers == IF <<"c","o","n","t","e","n","t","-","l","e","n","g","t","h">> \in DOMAIN w.headers
                   THEN w.headers
                   ELSE Set(w.headers, <<"c","o","n","t","e","n","t","-","l","e","n","g","t","h">>, Decimal(Len(body)))
    IN  [w EXCEPT !.headers = headers,
                  !.buf = @ \o FieldLines(headers, ho) \o <<"\r","\n">> \o body
                            \o TrailerSection(headers, w.trailers, to)]

\* Bytes: ho and to are the orders of the visits of the headers and trailers
Bytes(w, ho, to) ==
    LET body    == w.body
        headers == Set(w.headers, <<"c","o","n","t","e","n","t","-","l","e","n","g","t","h">>, Decimal(Len(body)))
    IN  [w EXCEPT !.headers = headers,
                  !.buf = @ \o FieldLines(headers, ho) \o <<"\r","\n">> \o body
                            \o TrailerSection(headers, w.trailers, to)]

\* the package's functions writing to an io.Writer: the bytes they write
response_WriteStatusLine(statusCode) == StatusLine(statusCode)
response_WriteHeaders(headers, o) == FieldLines(headers, o)

(***************************************************************************)
(* RequestFromReader as a state machine                                    *)
(***************************************************************************)
VARIABLES
    msg,          \* the message the peer composed, with its meaning
    stream,       \* the bytes the peer sends: Build(msg)
    pos,          \* number of bytes of stream the reader has delivered
    eofSeen,      \* a Read has returned io.EOF
    rq,           \* the Request being parsed
    buf,          \* RequestFromReader's buf
    readToIndex,  \* RequestFromReader's readToIndex
    consumed,     \* parse's consumed
    pc,           \* "loop": top of RequestFromReader's loop, "parse": inside
                  \* parse's loop, "returned": RequestFromReader has returned
    ret,          \* RequestFromReader's results: nilreq iff the request is nil
    last,         \* the latest parseSingle call: request before and after,
                  \* the data offered, the results
    byteWise      \* every Read so far has delivered exactly one byte

VARIABLES
    w,            \* the response Writer a handler is given
    wpc,          \* "handler": the handler may call the Writer, "serialized":
                  \* Bytes has been called, "idle": no Writer in use
    wlast,        \* the latest call of a Writer method: its name, the Writer
                  \* before the call, its argument and the error returned
    hist,         \* what the handler has done so far with the Writer
    out,          \* the bytes returned by Bytes
    wk,           \* the server's workers, one per connection
    srv,          \* the server: its handler, closed flag and listener, where
                  \* the acceptor loop and a caller of Close are
    hd,           \* a header collection in use
    hlast         \* the latest call of a method of the collection

pvars == <<msg, stream, pos, eofSeen, rq, buf, readToIndex, consumed, pc, ret, last,
           byteWise>>
wvars == <<w, wpc, wlast, hist, out>>
svars == <<wk, srv>>
hvars == <<hd, hlast>>
vars == <<pvars, wvars, svars, hvars>>

NoWriterCall == [op |-> "none", pre |-> NewWriter, arg |-> <<>>, err |-> "nil"]

NoHistory ==
    [calls |-> 0, bodyBegun |-> FALSE, deleted |-> {}, given |-> {},
     chunking |-> "open", payload |-> <<>>, trailersOK |-> {}]

\* no handler is running
WriterIdle ==
    /\ w = NewWriter
    /\ wpc = "idle"
    /\ wlast = NoWriterCall
    /\ hist = NoHistory
    /\ out = <<>>

\* no server is running
ServerIdle == wk = <<>> /\ srv = <<>>

NoHeadersCall ==
    [op |-> "none", pre |-> NewHeaders, name |-> <<>>, value |-> <<>>, calls |-> 0]

\* no header collection of its own is in use
HeadersIdle == hd = NewHeaders /\ hlast = NoHeadersCall

InitialBufLen == 8
ZeroByte == "NUL"
ERROR_READ == "read error"

Zeros(n) == [i \in 1..n |-> ZeroByte]

NoCall ==
    [called |-> FALSE, pre |-> newRequest, post |-> newRequest, data |-> <<>>,
     n |-> 0, err |-> "nil"]

Call(pre, data, s) ==
    [called |-> TRUE, pre |-> pre, post |-> s.r, data |-> data, n |-> s.n, err |-> s.err]

Init ==
    /\ \E m \in Messages : msg = Meaning(m) /\ stream = Build(m)
    /\ pos = 0
    /\ eofSeen = FALSE
    /\ rq = newRequest
    /\ buf = Zeros(InitialBufLen)
    /\ readToIndex = 0
    /\ consumed = 0
    /\ pc = "loop"
    /\ ret = [nilreq |-> TRUE, err |-> "nil"]
    /\ last = NoCall
    /\ byteWise = TRUE
    /\ WriterIdle
    /\ ServerIdle
    /\ HeadersIdle

\* growth one byte before the buffer is full
Grown_Eager(b, rti) == IF rti + 1 >= Len(b) THEN b \o Zeros(Len(b)) ELSE b

\* lines 164-168: double the buffer when it is full
Grown(b, rti) == IF rti >= Len(b) THEN b \o Zeros(Len(b)) ELSE b

\* reader.Read(buf[readToIndex:]) storing the next n bytes of the stream
Filled(b, rti, n) ==
    [i \in 1..Len(b) |-> IF i > rti /\ i <= rti + n THEN stream[pos + (i - rti)] ELSE b[i]]

\* compaction that forgets to shift the residue to the front
Compacted_NoShift(b, rti, read) == b

\* copy(buf, buf[read:readToIndex])
Compacted(b, rti, read) ==
    [i \in 1..Len(b) |-> IF i <= rti - read THEN b[i + read] ELSE b[i]]

\* One loop iteration up to the call of parse: grow, then a Read that returns
\* n >= 1 bytes, with a nil error or together with io.EOF.
ReadData ==
    /\ pc = "loop"
    /\ rq.State # StateDone
    /\ ~eofSeen
    /\ LET nbuf == Grown(buf, readToIndex)
       IN  \E n \in 1..Min(Len(nbuf) - readToIndex, Len(stream) - pos) :
           \E eof \in BOOLEAN :
             /\ buf' = Filled(nbuf, readToIndex, n)
             /\ readToIndex' = readToIndex + n
             /\ pos' = pos + n
             /\ eofSeen' = eof
             /\ consumed' = 0
             /\ pc' = "parse"
             /\ byteWise' = (byteWise /\ n = 1)
    /\ UNCHANGED <<msg, stream, rq, ret, last>>
    /\ UNCHANGED <<wvars, svars, hvars>>

\* end-of-stream reported as an error instead of forcing Done
ReadEOF_Unexpected ==
    /\ pc = "loop"
    /\ rq.State # StateDone
    /\ buf' = Grown(buf, readToIndex)
    /\ eofSeen' = TRUE
    /\ pc' = "returned"
    /\ ret' = [nilreq |-> TRUE, err |-> "unexpected EOF"]
    /\ UNCHANGED <<msg, stream, pos, rq, readToIndex, consumed, last, byteWise>>
    /\ UNCHANGED <<wvars, svars, hvars>>

\* A Read that returns (0, io.EOF): the peer has closed the connection, after
\* the whole stream or earlier.  Lines 176-179 force the state to Done.
ReadEOF ==
    /\ pc = "loop"
    /\ rq.State # StateDone
    /\ buf' = Grown(buf, readToIndex)
    /\ eofSeen' = TRUE
    /\ rq' = [rq EXCEPT !.State = StateDone]
    /\ pc' = "returned"
    /\ ret' = [nilreq |-> FALSE, err |-> "nil"]
    /\ UNCHANGED <<msg, stream, pos, readToIndex, consumed, last, byteWise>>
    /\ UNCHANGED <<wvars, svars, hvars>>

\* A Read that fails with an error other than io.EOF (lines 173-175)
ReadError ==
    /\ pc = "loop"
    /\ rq.State # StateDone
    /\ ~eofSeen
    /\ buf' = Grown(buf, readToIndex)
    /\ pc' = "returned"
    /\ ret' = [nilreq |-> TRUE, err |-> ERROR_READ]
    /\ UNCHANGED <<msg, stream, pos, eofSeen, rq, readToIndex, consumed, last, byteWise>>
    /\ UNCHANGED <<wvars, svars, hvars>>

\* One iteration of parse's loop; when the loop ends, parse returns and
\* RequestFromReader compacts the buffer (lines 182-187) or returns the error.
ParseIter ==
    /\ pc = "parse"
    /\ rq.State # StateDone
    /\ LET data == Slice(buf, consumed, readToIndex)
           s    == parseSingle(rq, data)
       IN  /\ last' = Call(rq, data, s)
           /\ rq' = s.r
           /\ IF s.err # "nil"
              THEN /\ pc' = "returned"
                   /\ ret' = [nilreq |-> TRUE, err |-> s.err]
                   /\ UNCHANGED <<buf, readToIndex, consumed>>
              ELSE IF s.n = 0
              THEN /\ buf' = Compacted(buf, readToIndex, consumed)
                   /\ readToIndex' = readToIndex - consumed
                   /\ consumed' = 0
                   /\ pc' = "loop"
                   /\ UNCHANGED ret
              ELSE /\ consumed' = consumed + s.n
                   /\ pc' = "parse"
                   /\ UNCHANGED <<buf, readToIndex, ret>>
    /\ UNCHANGED <<msg, stream, pos, eofSeen, byteWise>>
    /\ UNCHANGED <<wvars, svars, hvars>>

\* parse's loop condition fails: the state is Done
ParseExit ==
    /\ pc = "parse"
    /\ rq.State = StateDone
    /\ buf' = Compacted(buf, readToIndex, consumed)
    /\ readToIndex' = readToIndex - consumed
    /\ consumed' = 0
    /\ pc' = "loop"
    /\ UNCHANGED <<msg, stream, pos, eofSeen, rq, ret, last, byteWise>>
    /\ UNCHANGED <<wvars, svars, hvars>>

\* a loop that starts on another request instead of returning
Return_Restart ==
    /\ pc = "loop"
    /\ rq.State = StateDone
    /\ rq' = newRequest
    /\ UNCHANGED <<msg, stream, pos, eofSeen, pc, ret, buf, readToIndex, consumed, last, byteWise>>
    /\ UNCHANGED <<wvars, svars, hvars>>

\* RequestFromReader's loop condition fails: return rq, nil
Return ==
    /\ pc = "loop"
    /\ rq.State = StateDone
    /\ pc' = "returned"
    /\ ret' = [nilreq |-> FALSE, err |-> "nil"]
    /\ UNCHANGED <<msg, stream, pos, eofSeen, rq, buf, readToIndex, consumed, last, byteWise>>
    /\ UNCHANGED <<wvars, svars, hvars>>

\* A further call of parseSingle on the returned request
ParseSingleAgain ==
    /\ pc = "returned"
    /\ ~ret.nilreq
    /\ \E data \in {<<>>, <<"x">>, CRFL} :
         LET s == parseSingle(rq, data)
         IN  /\ last' = Call(rq, data, s)
             /\ rq' = s.r
    /\ UNCHANGED <<msg, stream, pos, eofSeen, buf, readToIndex, consumed, pc, ret, byteWise>>
    /\ UNCHANGED <<wvars, svars, hvars>>

Next ==
    \/ ReadData
    \/ ReadEOF
    \/ ReadError
    \/ ParseIter
    \/ ParseExit
    \/ Return
    \/ ParseSingleAgain

Spec == Init /\ [][Next]_vars

TypeOK ==
    /\ pc \in {"loop", "parse", "returned"}
    /\ rq.State \in StateInit..StateDone
    /\ pos \in 0..Len(stream)


\* the peer closed the connection before it had sent the whole stream
EarlyEOF == eofSeen /\ pos < Len(stream)

Returned == pc = "returned"
ReturnedOK == pc = "returned" /\ ~ret.nilreq /\ ret.err = "nil"

(***************************************************************************)
(* C1: for a well-formed message, whatever the sizes of the reads that     *)
(* deliver it, RequestFromReader returns no error and the request line,    *)
(* headers and body that parsing the whole message at once yields.         *)
(***************************************************************************)
C1_ChunkingIndependent ==
    (Returned /\ msg.wellFormed /\ ~EarlyEOF /\ ret.err # ERROR_READ) =>
        /\ ~ret.nilreq
        /\ ret.err = "nil"
        /\ parse(newRequest, stream).err = "nil"
        /\ rq = parse(newRequest, stream).r
        /\ rq = msg.expected

C1_Witness ==
    /\ ReturnedOK
    /\ msg.wellFormed
    /\ ~EarlyEOF
    /\ byteWise
    /\ Len(msg.fields) > 0
    /\ Len(rq.Body) >= 2

(***************************************************************************)
(* C2: in state Init a CRLF-terminated first line is accepted exactly when *)
(* its trimmed text is METHOD SP target SP HTTP/1.1 with a non-empty       *)
(* upper-case method and no further space; any other line fails with the   *)
(* malformed-request-line error, 0 bytes consumed, state Init and the      *)
(* request line unset.                                                     *)
(***************************************************************************)
FirstLine(data) == Slice(data, 0, Index(data, CRFL))

ThreeTokens(t) ==
    \E i \in 2..Len(t) : \E j \in (i + 1)..Len(t) :
        /\ t[i] = " " /\ t[j] = " "
        /\ \A k \in 1..Len(t) : k \notin {i, j} => t[k] # " "
        /\ \A k \in 1..(i - 1) : t[k] \in Range(UpperLetters)
        /\ SubSeq(t, j + 1, Len(t)) = HTTP11

InitCall == last.called /\ last.pre.State = StateInit /\ HasCRLF(last.data)

C2_RequestLineRule ==
    InitCall =>
        IF ThreeTokens(TrimSpace(FirstLine(last.data)))
        THEN /\ last.err = "nil"
             /\ last.post.State = StateHeaders
             /\ last.n = Len(FirstLine(last.data)) + 2
        ELSE /\ last.err = ERROR_MALFORMED_REQUEST_LINE
             /\ last.n = 0
             /\ last.post.State = StateInit
             /\ last.post.RequestLine = NoRequestLine
             /\ last.post = last.pre
             /\ Returned /\ ret.nilreq /\ ret.err = ERROR_MALFORMED_REQUEST_LINE

C2_Witness ==
    /\ InitCall
    /\ ~ThreeTokens(TrimSpace(FirstLine(last.data)))
    /\ msg.line.method = <<"G", "e", "T">>

(***************************************************************************)
(* C3: Headers.Parse on a non-empty CRLF-terminated line that has no colon *)
(* or has a space or tab before its first colon fails with the             *)
(* invalid-field-line error, consumes 0 bytes, does not end the header     *)
(* section and leaves the header collection as it was.                     *)
(***************************************************************************)
BadFieldLine(line) ==
    /\ Len(line) > 0
    /\ \/ \A i \in 1..Len(line) : line[i] # ":"
       \/ \E i \in 1..Len(line) :
            /\ line[i] \in {" ", "\t"}
            /\ \A j \in 1..i : line[j] # ":"

HeadersCall == last.called /\ last.pre.State = StateHeaders /\ HasCRLF(last.data)

C3_InvalidFieldLine ==
    (HeadersCall /\ BadFieldLine(FirstLine(last.data))) =>
        /\ last.err = ERROR_INVALID_FIELD_LINE
        /\ last.n = 0
        /\ last.post.State = StateHeaders
        /\ last.post.Headers = last.pre.Headers
        /\ rq.Headers = last.pre.Headers

C3_Witness ==
    /\ HeadersCall
    /\ BadFieldLine(FirstLine(last.data))
    /\ DOMAIN last.pre.Headers # {}
    /\ \E i \in 1..Len(FirstLine(last.data)) : FirstLine(last.data)[i] = "\t"

(***************************************************************************)
(* C4: once the header section is parsed, Get of a name in any letter case *)
(* returns the trimmed values of the field lines of that name (ignoring    *)
(* case) joined with ", " in their order of arrival; a name that occurs    *)
(* once maps to its single trimmed value.                                  *)
(***************************************************************************)
ToUpperByte(c) ==
    IF c \in Range(LowerLetters)
    THEN UpperLetters[CHOOSE i \in 1..Len(LowerLetters) : LowerLetters[i] = c]
    ELSE c

ToUpper(s) == [i \in 1..Len(s) |-> ToUpperByte(s[i])]

CaseVariants(name) == {name, ToLower(name), ToUpper(name)}

\* the call of parseSingle that parsed the blank line ending the header section
SectionDone == last.called /\ last.pre.State = StateHeaders /\ last.post.State = StateBody

C4_MergedValues ==
    SectionDone =>
        \A i \in 1..Len(msg.fields) : \A name \in CaseVariants(msg.fields[i].name) :
            Get(last.post.Headers, name) = JoinedValues(Named(msg.fields, name))

C4_Witness ==
    /\ SectionDone
    /\ Len(msg.fields) = 2
    /\ msg.fields[1].name = <<"a">>
    /\ msg.fields[2].name = <<"A">>

(***************************************************************************)
(* C5: with a declared content-length N the body never grows beyond N; a   *)
(* Body step appends the first min(N - len(Body), available) bytes offered *)
(* and reports that many consumed, and the state becomes Done in the step  *)
(* in which len(Body) reaches N.                                           *)
(***************************************************************************)
BodyCall == last.called /\ last.pre.State = StateBody /\ msg.declared >= 0

C5_BodyUpToLength ==
    /\ (rq.State \in {StateBody, StateDone} /\ msg.declared >= 0) =>
            Len(rq.Body) <= msg.declared
    /\ BodyCall =>
        LET N == msg.declared
            k == IF N - Len(last.pre.Body) < Len(last.data)
                 THEN N - Len(last.pre.Body) ELSE Len(last.data)
        IN  /\ last.err = "nil"
            /\ last.n = k
            /\ last.post.Body = last.pre.Body \o SubSeq(last.data, 1, k)
            /\ (last.post.State = StateDone) <=> (Len(last.post.Body) = N)
            /\ last.post.State \in {StateBody, StateDone}

C5_Witness ==
    /\ BodyCall
    /\ Len(last.pre.Body) > 0
    /\ Len(last.data) > msg.declared - Len(last.pre.Body)
    /\ last.post.State = StateDone

(***************************************************************************)
(* C6: end-of-stream in state Body with fewer body bytes than declared:    *)
(* RequestFromReader returns no error, the state is Done and Body is       *)
(* exactly the bytes delivered after the header-section terminator.        *)
(***************************************************************************)
EOFInBody ==
    /\ Returned /\ eofSeen
    /\ last.called /\ last.err = "nil" /\ last.post.State = StateBody

C6_TruncatedBody ==
    EOFInBody =>
        /\ ~ret.nilreq
        /\ ret.err = "nil"
        /\ rq.State = StateDone
        /\ pos >= msg.headerEnd
        /\ rq.Body = SubSeq(stream, msg.headerEnd + 1, pos)

C6_Witness ==
    /\ EOFInBody
    /\ msg.declared >= 0
    /\ Len(rq.Body) > 0
    /\ Len(rq.Body) < msg.declared

(***************************************************************************)
(* C7: when the parsed header section has a content-length whose merged    *)
(* value is not a non-negative decimal integer, RequestFromReader fails    *)
(* with an error and returns no request.                                   *)
(***************************************************************************)
IsDecimal(v) == Len(v) > 0 /\ \A i \in 1..Len(v) : v[i] \in Range(Digits)

MergedContentLength(m) == JoinedValues(ContentLengthFields(m))

\* the reader has delivered the whole header section of a message that has
\* a content-length field line
ContentLengthParsed ==
    /\ Returned
    /\ pos >= msg.headerEnd
    /\ Len(ContentLengthFields(msg)) > 0

C7_InvalidContentLengthFails ==
    (ContentLengthParsed /\ ~IsDecimal(MergedContentLength(msg))) =>
        ret.nilreq /\ ret.err # "nil"

(***************************************************************************)
(* C8: every request RequestFromReader returns without error has a         *)
(* non-empty upper-case method, a target without whitespace and the        *)
(* version "1.1".                                                          *)
(***************************************************************************)
C8_ReturnedRequestLine ==
    ReturnedOK =>
        /\ Len(rq.RequestLine.Method) > 0
        /\ \A i \in 1..Len(rq.RequestLine.Method) :
              rq.RequestLine.Method[i] \in Range(UpperLetters)
        /\ \A i \in 1..Len(rq.RequestLine.RequestTarget) :
              rq.RequestLine.RequestTarget[i] \notin Whitespace
        /\ rq.RequestLine.HttpVersion = <<"1", ".", "1">>

(***************************************************************************)
(* C9: a stream that ends before the request line is complete or before    *)
(* the blank line ending the header section is never returned as a         *)
(* successful request.                                                     *)
(***************************************************************************)
C9_IncompleteNeverAccepted ==
    (Returned /\ eofSeen /\ pos < msg.headerEnd) => ~ReturnedOK

(***************************************************************************)
(* C10: the parser state never moves backward in the order Init, Headers,  *)
(* Body, Done; once Done it stays Done; parseSingle in state Done returns  *)
(* the read-after-done error with 0 bytes consumed and the request         *)
(* unchanged.                                                              *)
(***************************************************************************)
DoneCall == last.called /\ last.pre.State = StateDone

C10_StateMonotone ==
    [][ /\ rq'.State >= rq.State
        /\ rq.State = StateDone => rq'.State = StateDone
        /\ DoneCall' =>
              /\ last'.err = ERROR_READING_IN_DONE_STATE
              /\ last'.n = 0
              /\ last'.post = last'.pre
              /\ rq' = rq ]_vars

C10_Witness ==
    /\ DoneCall
    /\ Len(last.data) > 0
    /\ Len(rq.Body) > 0
    /\ DOMAIN rq.Headers # {}

(***************************************************************************)
(* A handler using the response Writer.  The handler is any sequence of    *)
(* calls of the Writer's methods on a fresh Writer; the worker then calls  *)
(* Bytes once.  Collections are built with NewHeaders and Set, as the      *)
(* program's handler builds them.                                          *)
(***************************************************************************)
MaxCalls == 4      \* most calls a handler makes before Bytes

\* 404 has no entry in codeNames
StatusCodes == {StatusOK, 404}

\* the collections a handler passes to WriteHeaders
HeaderArgs ==
    { Set(NewHeaders, <<"C","o","n","t","e","n","t","-","T","y","p","e">>, <<"t","e","x","t","/","h","t","m","l">>),
      Set(Set(NewHeaders, <<"C","o","n","n","e","c","t","i","o","n">>, <<"k","e","e","p","-","a","l","i","v","e">>), <<"C","o","n","t","e","n","t","-","L","e","n","g","t","h">>, <<"7">>),
      Set(NewHeaders, <<"T","r","a","i","l","e","r">>, <<"x","-","a">>),
      Set(Set(NewHeaders, <<"t","r","a","n","s","f","e","r","-","e","n","c","o","d","i","n","g">>, <<"c","h","u","n","k","e","d">>), <<"t","r","a","i","l","e","r">>, <<"X","-","A",","," ","x","-","b">>) }

\* the collections a handler passes to WriteTrailers
TrailerArgs ==
    { NewHeaders,
      Set(NewHeaders, <<"X","-","A">>, <<"1">>),
      Set(Set(NewHeaders, <<"X","-","A">>, <<"2">>), <<"X","-","B">>, <<"3">>),
      Set(Set(NewHeaders, <<"X","-","A">>, <<"4">>), <<"X","-","C">>, <<"5">>) }

DeleteNames == { <<"c","o","n","t","e","n","t","-","l","e","n","g","t","h">>, <<"C","o","n","n","e","c","t","i","o","n">> }

Payloads == { <<"h","i">> }

ChunkPayloads == { <<>>, <<"0","1","2","3","4","5","6","7","8","9","\n">> }

\* no request is being read
ParserIdle ==
    /\ msg = Meaning(Msg(GoodLine, <<>>, <<>>))
    /\ stream = <<>>
    /\ pos = 0
    /\ eofSeen = FALSE
    /\ rq = newRequest
    /\ buf = <<>>
    /\ readToIndex = 0
    /\ consumed = 0
    /\ pc = "idle"
    /\ ret = [nilreq |-> TRUE, err |-> "nil"]
    /\ last = NoCall
    /\ byteWise = TRUE

\* writer := response.NewWriter(), handed to the handler
InitWriter ==
    /\ w = NewWriter
    /\ wpc = "handler"
    /\ wlast = NoWriterCall
    /\ hist = NoHistory
    /\ out = <<>>
    /\ ParserIdle
    /\ ServerIdle
    /\ HeadersIdle

WriterCall(op, arg, err) == [op |-> op, pre |-> w, arg |-> arg, err |-> err]

MayCall == wpc = "handler" /\ hist.calls < MaxCalls

Handler_WriteStatusLine ==
    /\ MayCall
    /\ \E statusCode \in StatusCodes :
         LET r == WriteStatusLine(w, statusCode)
         IN  /\ w' = r.w
             /\ wlast' = WriterCall("WriteStatusLine", statusCode, r.err)
    /\ hist' = [hist EXCEPT !.calls = @ + 1]
    /\ UNCHANGED <<wpc, out, pvars, svars, hvars>>

Handler_DeleteHeader ==
    /\ MayCall
    /\ \E fieldName \in DeleteNames :
         /\ w' = DeleteHeader(w, fieldName)
         /\ wlast' = WriterCall("DeleteHeader", fieldName, "nil")
         /\ hist' = [hist EXCEPT !.calls = @ + 1,
                                 !.deleted = @ \cup {ToLower(fieldName)}]
    /\ UNCHANGED <<wpc, out, pvars, svars, hvars>>

Handler_WriteHeaders ==
    /\ MayCall
    /\ \E headers \in HeaderArgs :
         LET r == WriteHeaders(w, headers)
         IN  /\ w' = r.w
             /\ wlast' = WriterCall("WriteHeaders", headers, r.err)
             /\ hist' = [hist EXCEPT !.calls = @ + 1,
                                     !.given = IF r.err = "nil"
                                               THEN @ \cup DOMAIN headers ELSE @]
    /\ UNCHANGED <<wpc, out, pvars, svars, hvars>>

Handler_WriteBody ==
    /\ MayCall
    /\ \E p \in Payloads :
         LET r == WriteBody(w, p)
         IN  /\ w' = r.w
             /\ wlast' = WriterCall("WriteBody", p, r.err)
             /\ hist' = IF r.err = "nil"
                        THEN [hist EXCEPT !.calls = @ + 1, !.bodyBegun = TRUE,
                                          !.chunking = "mixed"]
                        ELSE [hist EXCEPT !.calls = @ + 1]
    /\ UNCHANGED <<wpc, out, pvars, svars, hvars>>

Handler_WriteChunkedBody ==
    /\ MayCall
    /\ \E p \in ChunkPayloads :
         LET r == WriteChunkedBody(w, p)
         IN  /\ w' = r.w
             /\ wlast' = WriterCall("WriteChunkedBody", p, r.err)
             /\ hist' = [hist EXCEPT !.calls = @ + 1, !.bodyBegun = TRUE,
                                     !.chunking = IF @ = "open" THEN "open" ELSE "mixed",
                                     !.payload = @ \o p]
    /\ UNCHANGED <<wpc, out, pvars, svars, hvars>>

Handler_WriteChunkedBodyDone ==
    /\ MayCall
    /\ LET r == WriteChunkedBodyDone(w)
       IN  /\ w' = r.w
           /\ wlast' = WriterCall("WriteChunkedBodyDone", <<>>, r.err)
    /\ hist' = [hist EXCEPT !.calls = @ + 1,
                            !.chunking = IF @ = "open" THEN "done" ELSE "mixed"]
    /\ UNCHANGED <<wpc, out, pvars, svars, hvars>>

Handler_WriteTrailers ==
    /\ MayCall
    /\ \E h \in TrailerArgs : \E o \in Orders(h) :
         LET r == WriteTrailers(w, h, o)
         IN  /\ w' = r.w
             /\ wlast' = WriterCall("WriteTrailers", h, r.err)
             /\ hist' = [hist EXCEPT !.calls = @ + 1,
                                     !.trailersOK = IF r.err = "nil"
                                                    THEN @ \cup DOMAIN h ELSE @]
    /\ UNCHANGED <<wpc, out, pvars, svars, hvars>>

\* p := writer.Bytes(), once the handler has returned
Worker_Bytes ==
    /\ wpc = "handler"
    /\ \E ho \in Orders(Set(w.headers, <<"c","o","n","t","e","n","t","-","l","e","n","g","t","h">>, <<>>)) :
       \E to \in Orders(w.trailers) :
         /\ w' = Bytes(w, ho, to)
         /\ out' = w'.buf
    /\ wpc' = "serialized"
    /\ wlast' = WriterCall("Bytes", <<>>, "nil")
    /\ UNCHANGED <<hist, pvars, svars, hvars>>

NextWriter ==
    \/ Handler_WriteStatusLine
    \/ Handler_DeleteHeader
    \/ Handler_WriteHeaders
    \/ Handler_WriteBody
    \/ Handler_WriteChunkedBody
    \/ Handler_WriteChunkedBodyDone
    \/ Handler_WriteTrailers
    \/ Worker_Bytes

SpecWriter == InitWriter /\ [][NextWriter]_vars

\* Bytes has been called
Serialized == wpc = "serialized"

\* the length of the header lines of a collection, in whatever order
FieldLinesLen(h) == Len(FieldLines(h, CHOOSE o \in Orders(h) : TRUE))

\* where the body starts and ends in the output of Bytes (offsets)
BodyStart == Len(wlast.pre.buf) + FieldLinesLen(w.headers) + 2
BodyEnd == BodyStart + Len(w.body)

\* s occurs in t at offset i
OccursAt(s, t, i) == i >= 0 /\ i + Len(s) <= Len(t) /\ Slice(t, i, i + Len(s)) = s

\* where the header lines start in the output of Bytes (offset)
HeaderStart == Len(wlast.pre.buf)

\* a line of the output starts at offset i
LineStartsAt(i) == i = 0 \/ (i >= 2 /\ Slice(out, i - 2, i) = <<"\r","\n">>)

\* the header section of the output holds a line starting with s
HeaderLineWith(s) ==
    \E i \in HeaderStart..(BodyStart - 2) : LineStartsAt(i) /\ OccursAt(s, out, i)

\* the output holds the line l after the body bytes: right after them or
\* after another line
LineAfterBody(l) ==
    \E i \in BodyEnd..Len(out) :
        (i = BodyEnd \/ LineStartsAt(i)) /\ OccursAt(l, out, i)

(***************************************************************************)
(* C11: over every sequence of calls of the Writer's methods, the state of *)
(* the Writer never moves backward in the order Init, StatusLine, Headers, *)
(* Body.                                                                   *)
(***************************************************************************)
C11_StateNeverBackward == [][w'.state >= w.state]_vars

(***************************************************************************)
(* C12: a call of WriteHeaders made after an earlier successful WriteBody  *)
(* or WriteChunkedBody fails with the headers-after-body error and leaves  *)
(* the held headers and the state as they were.                            *)
(***************************************************************************)
C12_HeadersAfterBodyFail ==
    (wlast.op = "WriteHeaders" /\ hist.bodyBegun) =>
        /\ wlast.err = ERROR_HEADERS_AFTER_BODY
        /\ w.headers = wlast.pre.headers
        /\ w.state = wlast.pre.state

(***************************************************************************)
(* C13: WriteBody called in state Init or StatusLine returns the           *)
(* body-before-headers error and leaves the body accumulator and the state *)
(* unchanged; called in state Headers or Body it appends exactly the given *)
(* bytes to the accumulator and leaves the state at Body.                  *)
(***************************************************************************)
C13_WriteBodyRule ==
    wlast.op = "WriteBody" =>
        IF wlast.pre.state \in {WriterStateInit, StateStatusLine}
        THEN /\ wlast.err = ERROR_BODY_BEFORE_HEADERS
             /\ w.body = wlast.pre.body
             /\ w.state = wlast.pre.state
        ELSE /\ wlast.err = "nil"
             /\ w.body = wlast.pre.body \o wlast.arg
             /\ w.state = WriterStateBody

\* a WriteBody in state Body that appends to a body already begun
C13_Witness ==
    /\ wlast.op = "WriteBody"
    /\ wlast.pre.state = WriterStateBody
    /\ wlast.pre.body # <<>>
    /\ w.body = wlast.pre.body \o wlast.arg

(***************************************************************************)
(* C14: whatever the handler called on a fresh Writer, the output of the   *)
(* single Bytes call is exactly one status line, then the header lines,    *)
(* one blank line and the body bytes (then the trailers if any).           *)
(***************************************************************************)
C14_OneStatusLineFirst ==
    Serialized =>
        \E statusCode \in StatusCodes :
        \E ho \in Orders(w.headers) : \E to \in Orders(w.trailers) :
            out = StatusLine(statusCode) \o FieldLines(w.headers, ho) \o <<"\r","\n">>
                  \o w.body \o TrailerSection(w.headers, w.trailers, to)

(***************************************************************************)
(* C15: if DeleteHeader("content-length") was called before Bytes, the     *)
(* output of Bytes holds no content-length header line.                    *)
(***************************************************************************)
C15_DeletedContentLengthAbsent ==
    (Serialized /\ ContentLengthName \in hist.deleted) =>
        ~HeaderLineWith(ContentLengthName \o <<":">>)

(***************************************************************************)
(* C16: every output of Bytes carries a content-length, a connection and a *)
(* content-type header line, and carries connection "close" and            *)
(* content-type "text/plain" for each of these two names that the handler  *)
(* did not set in a collection given to WriteHeaders.                      *)
(***************************************************************************)
C16_DefaultHeadersCarried ==
    Serialized =>
        /\ HeaderLineWith(<<"c","o","n","t","e","n","t","-","l","e","n","g","t","h",":">>)
        /\ HeaderLineWith(<<"c","o","n","n","e","c","t","i","o","n",":">>)
        /\ HeaderLineWith(<<"c","o","n","t","e","n","t","-","t","y","p","e",":">>)
        /\ <<"c","o","n","n","e","c","t","i","o","n">> \notin hist.given =>
               HeaderLineWith(FieldLine(<<"c","o","n","n","e","c","t","i","o","n">>, <<"c","l","o","s","e">>))
        /\ <<"c","o","n","t","e","n","t","-","t","y","p","e">> \notin hist.given =>
               HeaderLineWith(FieldLine(<<"c","o","n","t","e","n","t","-","t","y","p","e">>, <<"t","e","x","t","/","p","l","a","i","n">>))

\* the value of a string of hexadecimal digits
RECURSIVE HexValue(_)
HexValue(ds) ==
    IF ds = <<>> THEN 0
    ELSE 16 * HexValue(SubSeq(ds, 1, Len(ds) - 1))
         + (CHOOSE i \in 1..16 : HexDigits[i] = ToUpperByte(ds[Len(ds)])) - 1

IsHex(ds) ==
    Len(ds) >= 1 /\ \A i \in 1..Len(ds) : ToUpperByte(ds[i]) \in Range(HexDigits)

\* the trailer section of a chunked body: field lines, then an empty line
RECURSIVE TrailerSectionEnds(_)
TrailerSectionEnds(s) ==
    LET i == Index(s, <<"\r","\n">>)
    IN  IF i = -1 THEN FALSE
        ELSE IF i = 0 THEN TRUE
        ELSE TrailerSectionEnds(Slice(s, i + 2, Len(s)))

\* A decoder of the chunked transfer coding (RFC 9112, 7.1): chunks of
\* chunk-size CRLF chunk-data CRLF, a last chunk of size zero, a trailer
\* section and a final CRLF.  ok: the body is complete; data: the payload.
RECURSIVE Dechunk(_)
Dechunk(s) ==
    LET i    == Index(s, <<"\r","\n">>)
        size == Slice(s, 0, i)
        n    == HexValue(size)
        rest == Slice(s, i + 2, Len(s))
    IN  IF i = -1 \/ ~IsHex(size) THEN [ok |-> FALSE, data |-> <<>>]
        ELSE IF n = 0 THEN [ok |-> TrailerSectionEnds(rest), data |-> <<>>]
        ELSE IF Len(rest) < n + 2 \/ Slice(rest, n, n + 2) # <<"\r","\n">>
        THEN [ok |-> FALSE, data |-> <<>>]
        ELSE LET d == Dechunk(Slice(rest, n + 2, Len(rest)))
             IN  [ok |-> d.ok, data |-> Slice(rest, 0, n) \o d.data]

(***************************************************************************)
(* C17: each WriteChunkedBody appends the hexadecimal length, CRLF, the    *)
(* payload and CRLF; and when the body was written by calls of             *)
(* WriteChunkedBody followed by WriteChunkedBodyDone, a decoder of the     *)
(* chunked coding applied to the body section of the output of Bytes ends  *)
(* successfully with the concatenation of the payloads.                    *)
(***************************************************************************)
C17_ChunkedRoundTrip ==
    /\ wlast.op = "WriteChunkedBody" =>
           w.body = wlast.pre.body \o Hex(Len(wlast.arg)) \o <<"\r","\n">>
                    \o wlast.arg \o <<"\r","\n">>
    /\ (Serialized /\ hist.chunking = "done") =>
           LET d == Dechunk(Slice(out, BodyStart, Len(out)))
           IN  d.ok /\ d.data = hist.payload

\* name k is among the names listed in val: split on commas, trimmed,
\* compared ignoring case
Listed(k, val) ==
    LET parts == Split(val, <<",">>)
    IN  \E i \in 1..Len(parts) : EqualFold(TrimSpace(parts[i]), k)

(***************************************************************************)
(* C18: WriteTrailers fails with the trailers-not-initialized error when   *)
(* the held headers have no trailer entry; with one, it fails with the     *)
(* unannounced-trailer error if a given field name is not among the names  *)
(* listed, and otherwise succeeds with every given field in the held       *)
(* trailer collection.                                                     *)
(***************************************************************************)
C18_WriteTrailersRule ==
    wlast.op = "WriteTrailers" =>
        LET h == wlast.arg
            held == wlast.pre.headers
        IN  IF <<"t","r","a","i","l","e","r">> \notin DOMAIN held
            THEN wlast.err = ERROR_NO_TRAILERS
            ELSE IF \E k \in DOMAIN h : ~Listed(k, held[<<"t","r","a","i","l","e","r">>])
            THEN wlast.err = ERROR_TRAILER_NOT_ANNOUNCED
            ELSE /\ wlast.err = "nil"
                 /\ \A k \in DOMAIN h :
                        k \in DOMAIN w.trailers /\ w.trailers[k] = h[k]

\* two fields written under a trailer header that lists them with other
\* case and with a space after the comma
C18_Witness ==
    /\ wlast.op = "WriteTrailers"
    /\ wlast.err = "nil"
    /\ Cardinality(DOMAIN wlast.arg) = 2
    /\ <<"x","-","b">> \in DOMAIN w.trailers
    /\ wlast.pre.headers[<<"t","r","a","i","l","e","r">>] = <<"X","-","A",","," ","x","-","b">>

(***************************************************************************)
(* C19 as stated: every field for which WriteTrailers succeeded has its    *)
(* line in the output of the next Bytes, after the body bytes.             *)
(***************************************************************************)
C19_TrailerAfterBody ==
    Serialized =>
        \A k \in hist.trailersOK : LineAfterBody(FieldLine(k, w.trailers[k]))

(***************************************************************************)
(* C19 amended: every field for which WriteTrailers succeeded has its line *)
(* in the output of the next Bytes, after the body bytes, provided the     *)
(* held transfer-encoding header is "chunked" when Bytes is called.        *)
(***************************************************************************)
C19_TrailerAfterBodyWhenChunked ==
    (Serialized /\ Get(w.headers, <<"t","r","a","n","s","f","e","r","-","e","n","c","o","d","i","n","g">>) = <<"c","h","u","n","k","e","d">>) =>
        \A k \in hist.trailersOK : LineAfterBody(FieldLine(k, w.trailers[k]))

C19_Witness ==
    /\ Serialized
    /\ Get(w.headers, <<"t","r","a","n","s","f","e","r","-","e","n","c","o","d","i","n","g">>) = <<"c","h","u","n","k","e","d">>
    /\ Cardinality(hist.trailersOK) = 2
    /\ hist.chunking = "done"


\* the content-length header line for a body of n bytes
LengthLine(n) == <<"c","o","n","t","e","n","t","-","l","e","n","g","t","h",":"," ">> \o Decimal(n) \o <<"\r","\n">>

\* C27: in the output of one Bytes call the header section holds a
\* content-length line, every content-length line in it gives the number of
\* bytes of the accumulated body, and exactly those bytes stand between the
\* blank line and the trailer section (or the end), whether the handler had
\* set a content-length, deleted it or left it alone.
C27_ContentLengthIsBodyLength ==
    Serialized =>
        /\ HeaderLineWith(LengthLine(Len(w.body)))
        /\ \A i \in HeaderStart..(BodyStart - 2) :
              (LineStartsAt(i) /\ OccursAt(<<"c","o","n","t","e","n","t","-","l","e","n","g","t","h",":">>, out, i)) =>
                  OccursAt(LengthLine(Len(w.body)), out, i)
        /\ Slice(out, BodyStart - 4, BodyStart) = <<"\r","\n","\r","\n">>
        /\ Slice(out, BodyStart, BodyEnd) = w.body
        /\ w.body = wlast.pre.body
        /\ \E to \in Orders(w.trailers) :
              Slice(out, BodyEnd, Len(out)) \in {<<>>, FieldLines(w.trailers, to) \o <<"\r","\n">>}

\* the handler had set content-length 7 and wrote a body of two bytes
C27_Witness ==
    /\ Serialized
    /\ <<"c","o","n","t","e","n","t","-","l","e","n","g","t","h">> \in hist.given
    /\ w.body = <<"h","i">>
    /\ HeaderLineWith(LengthLine(2))
    /\ ~HeaderLineWith(LengthLine(7))

\* C31: a WriteTrailers call that fails, for want of a trailer header or for
\* a field that is not announced, leaves the held trailer collection as it
\* was before the call, in whatever order the given fields are visited.
C31_FailedWriteTrailersStoresNothing ==
    (wlast.op = "WriteTrailers" /\ wlast.err # "nil") =>
        w.trailers = wlast.pre.trailers

(***************************************************************************)
(* internal/server: Server.handle, the worker of one accepted connection.  *)
(* The peer of a connection sends a stream and closes; a Read delivers as  *)
(* many bytes as the buffer has room for.  The handler is the function the *)
(* server was given: any sequence of calls of the Writer's methods.        *)
(***************************************************************************)
Conns == {"c1", "c2"}

\* strconv.Quote of a printable string without quotes or backslashes
Quote(s) == <<"\"">> \o s \o <<"\"">>

\* err.Error() for an error returned by RequestFromReader with request r
ErrorText(err, r) ==
    IF err = ERROR_MALFORMED_REQUEST_LINE THEN <<"M","a","l","f","o","r","m","e","d"," ","R","e","q","u","e","s","t"," ","L","i","n","e"," ","E","r","r","o","r">>
    ELSE IF err = ERROR_INVALID_FIELD_LINE THEN <<"I","n","v","a","l","i","d"," ","f","i","e","l","d","-","l","i","n","e">>
    ELSE IF err = ERROR_INVALID_CONTENT_LENGTH THEN <<"i","n","v","a","l","i","d"," ","c","o","n","t","e","n","t","-","l","e","n","g","t","h">>
    ELSE IF err = ERROR_READING_IN_DONE_STATE THEN <<"T","r","y","i","n","g"," ","t","o"," ","r","e","a","d"," ","i","n"," ","a"," ","d","o","n","e"," ","s","t","a","t","e">>
    ELSE IF err = ERROR_UNDIFINIED_STATE THEN <<"U","n","d","i","f","i","e","n","e","d"," ","s","t","a","t","e">>
    ELSE <<"s","t","r","c","o","n","v",".","A","t","o","i",":"," ","p","a","r","s","i","n","g"," ">> \o Quote(Get(r.Headers, ContentLengthName))
         \o <<":"," ","i","n","v","a","l","i","d"," ","s","y","n","t","a","x">>

\* RequestFromReader over a connection whose peer sends s and closes.  r, b
\* and rti are the request, the buffer and readToIndex; p counts the bytes
\* read so far and reads the calls of Read so far.
RECURSIVE ReadLoop(_, _, _, _, _, _)

\* lines 181-187: the result of parse, then the compaction of the buffer
AfterParse(a, b, rti, s, p, reads) ==
    IF a.err # "nil"
    THEN [nilreq |-> TRUE, req |-> a.r, err |-> a.err, pos |-> p, reads |-> reads]
    ELSE ReadLoop(a.r, Compacted(b, rti, a.n), rti - a.n, s, p, reads)

\* lines 170-180: a Read of n bytes of s into b[rti:]; n = 0 is io.EOF
ReadInto(r, b, rti, n, s, p, reads) ==
    IF n = 0
    THEN [nilreq |-> FALSE, req |-> [r EXCEPT !.State = StateDone], err |-> "nil",
          pos |-> p, reads |-> reads + 1]
    ELSE AfterParse(parse(r, SubSeq(b, 1, rti) \o SubSeq(s, p + 1, p + n)),
                    SubSeq(b, 1, rti) \o SubSeq(s, p + 1, p + n)
                        \o SubSeq(b, rti + n + 1, Len(b)),
                    rti + n, s, p + n, reads + 1)

\* lines 164-168: the buffer grown when full, then read into
GrowAndRead(r, nbuf, rti, s, p, reads) ==
    ReadInto(r, nbuf, rti, Min(Len(nbuf) - rti, Len(s) - p), s, p, reads)

ReadLoop(r, b, rti, s, p, reads) ==
    IF r.State = StateDone
    THEN [nilreq |-> FALSE, req |-> r, err |-> "nil", pos |-> p, reads |-> reads]
    ELSE GrowAndRead(r, Grown(b, rti), rti, s, p, reads)

RequestFromReader(s) == ReadLoop(newRequest, Zeros(InitialBufLen), 0, s, 0, 0)

\* the bytes HandlerError.Write writes, the headers visited in order o
HandlerError_Write_NoLength(code, message, o) ==
    response_WriteStatusLine(code)
    \o response_WriteHeaders(GetDefaultHeaders(0), o)
    \o <<"\r","\n">> \o message

HandlerError_Write(code, message, o) ==
    response_WriteStatusLine(code)
    \o response_WriteHeaders(GetDefaultHeaders(Len(message)), o)
    \o <<"\r","\n">> \o message

\* one call of a Writer method by the handler; the errors are dropped, as the
\* program's handler drops them
Apply(wr, call) ==
    IF call.op = "WriteStatusLine" THEN WriteStatusLine(wr, call.arg).w
    ELSE IF call.op = "WriteHeaders" THEN WriteHeaders(wr, call.arg).w
    ELSE IF call.op = "WriteBody" THEN WriteBody(wr, call.arg).w
    ELSE wr

RECURSIVE RunHandler(_, _)
RunHandler(wr, calls) ==
    IF calls = <<>> THEN wr ELSE RunHandler(Apply(wr, Head(calls)), Tail(calls))

\* the pages of the program's handler, each abbreviated to its title
respond400 == <<"4","0","0"," ","B","a","d"," ","R","e","q","u","e","s","t">>
respond500 == <<"5","0","0"," ","I","n","t","e","r","n","a","l"," ","S","e","r","v","e","r"," ","E","r","r","o","r">>
respond200 == <<"2","0","0"," ","O","K">>

\* the reply of the program's handler: a status line, one header, a page
Reply(statusCode, page) ==
    << [op |-> "WriteStatusLine", arg |-> statusCode],
       [op |-> "WriteHeaders", arg |-> Set(NewHeaders, <<"C","o","n","t","e","n","t","-","T","y","p","e">>, <<"t","e","x","t","/","h","t","m","l">>)],
       [op |-> "WriteBody", arg |-> page] >>

\* the handlers a server may be given: the program's handler (without its
\* routes that read a file or call another server), and a handler that
\* calls nothing
Handlers == {"main", "silent"}

\* the calls of the Writer's methods a handler makes for request req
HandlerCalls(handler, req) ==
    IF handler = "silent" THEN <<>>
    ELSE IF req.RequestLine.RequestTarget = <<"/","y","o","u","r","p","r","o","b","l","e","m">>
    THEN Reply(StatusBadRequest, respond400)
    ELSE IF req.RequestLine.RequestTarget = <<"/","m","y","p","r","o","b","l","e","m">>
    THEN Reply(StatusInternalServerError, respond500)
    ELSE Reply(StatusOK, respond200)

\* the streams the peers send
ServerStreams ==
    { Build(Msg(GoodLine, <<>>, <<>>)),
      Build(Msg(Line(<<>>, GET, SP, <<"/","y","o","u","r","p","r","o","b","l","e","m">>, SP, HTTP11, <<>>), <<>>, <<>>)),
      Build(Msg(Line(<<>>, <<"g","e","t">>, SP, <<"/">>, SP, HTTP11, <<>>), <<>>, <<>>)),
      Build(Msg(GoodLine, <<Field(ContentLengthName, COLON, SP, <<"2","x">>, <<>>)>>, <<"x","y">>)) }

\* the worker of a connection whose peer sends s; "waiting": the connection
\* is not accepted yet
NewWorker(s) ==
    [pc |-> "waiting", stream |-> s, pos |-> 0, reads |-> 0,
     ret |-> [nilreq |-> TRUE, err |-> "nil", state |-> StateInit],
     req |-> newRequest, message |-> <<>>,
     writer |-> NewWriter, handled |-> 0, sent |-> <<>>, responses |-> 0,
     open |-> TRUE]

\* server, err := Serve(port, handler): the listener is open, the acceptor
\* is about to call Accept, Close has not been called
NewServer(handler) ==
    [handler |-> handler, closed |-> FALSE, listener |-> "open",
     listen |-> "accept", cause |-> "none", close |-> "idle"]

InitServer ==
    /\ \E ss \in [Conns -> ServerStreams] : wk = [c \in Conns |-> NewWorker(ss[c])]
    /\ \E handler \in Handlers : srv = NewServer(handler)
    /\ ParserIdle
    /\ WriterIdle
    /\ HeadersIdle

\* conn, err := s.listener.Accept() returns a connection; go s.handle(conn)
Listen_Accept ==
    /\ srv.listen = "accept"
    /\ srv.listener = "open"
    /\ \E c \in Conns :
         /\ wk[c].pc = "waiting"
         /\ wk' = [wk EXCEPT ![c].pc = "start"]
    /\ UNCHANGED <<srv, pvars, wvars, hvars>>

\* Accept returns an error: always once the listener is closed, and for a
\* passing fault while it is open
Listen_AcceptError ==
    /\ srv.listen = "accept"
    /\ srv' = [srv EXCEPT !.listen = "failed",
                          !.cause = IF srv.listener = "closed" THEN "closed"
                                    ELSE "transient"]
    /\ UNCHANGED <<wk, pvars, wvars, hvars>>

\* a loop that retries whatever the flag says
ExitOnError_Never(closed) == FALSE

\* if s.closed.Load() { return }
ExitOnError(closed) == closed

\* after an error of Accept: return if the flag is set, else continue
Listen_Check ==
    /\ srv.listen = "failed"
    /\ srv' = [srv EXCEPT !.listen = IF ExitOnError(srv.closed) THEN "exited"
                                     ELSE "accept",
                          !.cause = "none"]
    /\ UNCHANGED <<wk, pvars, wvars, hvars>>

\* a Close that closes the listener before it sets the flag
Close_Store_ListenerFirst ==
    /\ srv.close = "idle"
    /\ srv' = [srv EXCEPT !.listener = "closed", !.close = "stored"]
    /\ UNCHANGED <<wk, pvars, wvars, hvars>>

\* Close: s.closed.Store(true)
Close_Store ==
    /\ srv.close = "idle"
    /\ srv' = [srv EXCEPT !.closed = TRUE, !.close = "stored"]
    /\ UNCHANGED <<wk, pvars, wvars, hvars>>

\* a listener whose Close also closes the connections it accepted
AcceptedConns_Closed(workers) ==
    [c \in DOMAIN workers |->
        IF workers[c].pc = "waiting" THEN workers[c]
        ELSE [workers[c] EXCEPT !.pc = "closed", !.open = FALSE]]

\* the accepted connections after s.listener.Close(): as they were
AcceptedConns(workers) == workers

\* Close: return s.listener.Close()
Close_Listener ==
    /\ srv.close = "stored"
    /\ srv' = [srv EXCEPT !.listener = "closed", !.close = "idle"]
    /\ wk' = AcceptedConns(wk)
    /\ UNCHANGED <<pvars, wvars, hvars>>

\* a worker that takes every result of RequestFromReader for a request
HandleRequest_NoCheck(c, r) ==
    wk' = [wk EXCEPT ![c].pos = r.pos, ![c].reads = r.reads,
                     ![c].ret = [nilreq |-> r.nilreq, err |-> r.err,
                                 state |-> r.req.State],
                     ![c].req = r.req,
                     ![c].pc = "parsed"]

\* req, err := request.RequestFromReader(conn), which returned r
HandleRequest(c, r) ==
    wk' = [wk EXCEPT ![c].pos = r.pos, ![c].reads = r.reads,
                     ![c].ret = [nilreq |-> r.nilreq, err |-> r.err,
                                 state |-> r.req.State],
                     ![c].req = IF r.nilreq THEN newRequest ELSE r.req,
                     ![c].message = IF r.err = "nil" THEN <<>>
                                    ELSE ErrorText(r.err, r.req),
                     ![c].pc = IF r.err = "nil" THEN "parsed" ELSE "failed"]

Worker_Request(c) ==
    /\ wk[c].pc = "start"
    /\ HandleRequest(c, RequestFromReader(wk[c].stream))
    /\ UNCHANGED <<srv, pvars, wvars, hvars>>

\* e := NewHandlerError(response.StatusBadRequest, err.Error()); e.Write(conn)
Worker_Error(c) ==
    /\ wk[c].pc = "failed"
    /\ \E o \in Orders(GetDefaultHeaders(0)) :
         wk' = [wk EXCEPT ![c].sent = @ \o HandlerError_Write(StatusBadRequest,
                                                             wk[c].message, o),
                          ![c].responses = @ + 1,
                          ![c].pc = "return"]
    /\ UNCHANGED <<srv, pvars, wvars, hvars>>

\* writer := response.NewWriter(); s.handler(writer, req)
Worker_Handler(c) ==
    /\ wk[c].pc = "parsed"
    /\ wk' = [wk EXCEPT ![c].writer = RunHandler(NewWriter,
                                                 HandlerCalls(srv.handler, wk[c].req)),
                        ![c].handled = @ + 1,
                        ![c].pc = "handled"]
    /\ UNCHANGED <<srv, pvars, wvars, hvars>>

\* every worker writing to the first connection
ConnOf_Shared(c) == "c1"

\* the connection the worker c writes to: conn, its own
ConnOf(c) == c

\* p := writer.Bytes(); conn.Write(p)
Worker_Write(c) ==
    /\ wk[c].pc = "handled"
    /\ \E ho \in Orders(Set(wk[c].writer.headers, <<"c","o","n","t","e","n","t","-","l","e","n","g","t","h">>, <<>>)) :
       \E to \in Orders(wk[c].writer.trailers) :
         wk' = [wk EXCEPT ![c].writer = Bytes(@, ho, to),
                          ![c].responses = @ + 1,
                          ![c].pc = "return",
                          ![ConnOf(c)].sent = @ \o Bytes(wk[c].writer, ho, to).buf]
    /\ UNCHANGED <<srv, pvars, wvars, hvars>>

\* the deferred conn.Close()
Worker_Close(c) ==
    /\ wk[c].pc = "return"
    /\ wk' = [wk EXCEPT ![c].open = FALSE, ![c].pc = "closed"]
    /\ UNCHANGED <<srv, pvars, wvars, hvars>>

Request == \E c \in Conns : Worker_Request(c)
Error == \E c \in Conns : Worker_Error(c)
Handler == \E c \in Conns : Worker_Handler(c)
Write == \E c \in Conns : Worker_Write(c)
Close == \E c \in Conns : Worker_Close(c)

NextServer ==
    \/ Listen_Accept
    \/ Listen_AcceptError
    \/ Listen_Check
    \/ Close_Store
    \/ Close_Listener
    \/ Request
    \/ Error
    \/ Handler
    \/ Write
    \/ Close

SpecServer == InitServer /\ [][NextServer]_vars

\* request parsing has failed for connection c
ParseFailed(c) == wk[c].pc # "start" /\ wk[c].ret.err # "nil"

\* the three default header lines of a response to a failed parse
DefaultLines(message) ==
    { <<"c","o","n","t","e","n","t","-","l","e","n","g","t","h",":"," ">> \o Decimal(Len(message)) \o <<"\r","\n">>,
      <<"c","o","n","n","e","c","t","i","o","n",":"," ","c","l","o","s","e","\r","\n">>,
      <<"c","o","n","t","e","n","t","-","t","y","p","e",":"," ","t","e","x","t","/","p","l","a","i","n","\r","\n">> }

\* the 400 responses to a failed parse with the given message
ErrorResponses(message) ==
    { <<"H","T","T","P","/","1",".","1"," ","4","0","0"," ","B","a","d"," ","R","e","q","u","e","s","t","\r","\n">> \o l[1] \o l[2] \o l[3] \o <<"\r","\n">> \o message :
        l \in {p \in [1..3 -> DefaultLines(message)] :
                 \A x \in DefaultLines(message) : \E i \in 1..3 : p[i] = x} }

(***************************************************************************)
(* C20: when request parsing fails for a connection, the worker never      *)
(* invokes the handler and reads no more from the connection; it writes    *)
(* exactly one response, made of the 400 status line, the default headers  *)
(* with content-length the length of the error's message, a blank line and *)
(* the message as body; then it closes the connection.                     *)
(***************************************************************************)
C20_ParseFailureResponse ==
    /\ [](\A c \in Conns : ParseFailed(c) =>
            /\ wk[c].handled = 0
            /\ wk[c].ret.nilreq
            /\ wk[c].pc \in {"failed", "return", "closed"}
            /\ wk[c].pc = "failed" => (wk[c].sent = <<>> /\ wk[c].open)
            /\ wk[c].pc = "return" => wk[c].open
            /\ wk[c].pc = "closed" => ~wk[c].open
            /\ wk[c].pc \in {"return", "closed"} =>
                   /\ wk[c].responses = 1
                   /\ wk[c].sent \in ErrorResponses(wk[c].message))
    /\ [][\A c \in Conns : ParseFailed(c) =>
            /\ wk'[c].pos = wk[c].pos
            /\ wk'[c].reads = wk[c].reads
            /\ wk'[c].handled = wk[c].handled]_vars

\* a connection closed after the response to a content-length that Atoi refused
C20_Witness ==
    \E c \in Conns :
        /\ wk[c].pc = "closed"
        /\ ParseFailed(c)
        /\ wk[c].message = <<"s","t","r","c","o","n","v",".","A","t","o","i",":"," ","p","a","r","s","i","n","g"," ","\"","2","x","\"",":"," ","i","n","v","a","l","i","d"," ","s","y","n","t","a","x">>
        /\ ~wk[c].open


\* ---------------------------------------------------------------------
\* The server's workers, acceptor loop and Close
\* ---------------------------------------------------------------------

\* the worker of c reads from its connection in this step
Reads(c) == wk'[c].reads # wk[c].reads \/ wk'[c].pos # wk[c].pos \/ wk'[c].ret # wk[c].ret

\* the worker of c invokes the handler in this step
Invokes(c) == wk'[c].handled # wk[c].handled

\* the worker of c writes a response in this step
Writes(c) == wk'[c].responses # wk[c].responses \/ wk'[c].sent # wk[c].sent

\* the connection c is closed in this step
Closes(c) == wk'[c].open # wk[c].open

\* C21: a worker reads and parses once, as its first step; it invokes the
\* handler at most once, and only after RequestFromReader returned a
\* request in state Done and no error, before any response; it writes at
\* most one response, the handler's only after the handler returned (the
\* reply to a parse failure takes the place of both); it closes the
\* connection only after the response was written; it never reads again.
C21_WorkerOrder ==
    [][\A c \in Conns :
         /\ Reads(c) =>
              /\ wk[c].pc = "start" /\ wk[c].reads = 0
              /\ wk[c].handled = 0 /\ wk[c].responses = 0 /\ wk[c].open
              /\ wk'[c].pc \in {"parsed", "failed"}
         /\ wk'[c].pc = "start" => wk[c].pc \in {"start", "waiting"}
         /\ Invokes(c) =>
              /\ wk[c].handled = 0 /\ wk'[c].handled = 1
              /\ wk[c].pc = "parsed"
              /\ wk[c].ret.err = "nil" /\ ~wk[c].ret.nilreq
              /\ wk[c].ret.state = StateDone
              /\ wk[c].responses = 0 /\ wk[c].open
         /\ Writes(c) =>
              /\ wk[c].responses = 0 /\ wk'[c].responses = 1
              /\ wk[c].sent = <<>>
              /\ wk[c].open
              /\ \/ wk[c].handled = 1 /\ wk[c].pc = "handled"
                 \/ wk[c].ret.err # "nil" /\ wk[c].handled = 0
         /\ Closes(c) =>
              /\ wk[c].open /\ ~wk'[c].open
              /\ wk[c].responses = 1
              /\ wk[c].pc = "return"
      ]_vars

C21_Witness ==
    \E c \in Conns :
        /\ wk[c].pc = "closed" /\ ~wk[c].open
        /\ wk[c].reads > 1
        /\ wk[c].ret.state = StateDone
        /\ wk[c].handled = 1
        /\ wk[c].responses = 1 /\ wk[c].sent # <<>>

\* C22: the acceptor loop exits only from a failed accept with the closed
\* flag set, and after a failed accept it exits if the flag is set and calls
\* Accept again if it is not; only Close's store changes the flag, and only
\* from false to true; the listener is closed, and an accept has failed
\* because of it, only with the flag set.
C22_AcceptorExit ==
    /\ [](srv.listener = "closed" => srv.closed)
    /\ [](srv.listen = "failed" /\ srv.cause = "closed" => srv.closed)
    /\ [][/\ (srv'.listen = "exited" /\ srv.listen # "exited") =>
                srv.listen = "failed" /\ srv.closed
          /\ (srv.listen = "failed" /\ srv'.listen # "failed") =>
                srv'.listen = (IF srv.closed THEN "exited" ELSE "accept")
          /\ srv.listen = "exited" => srv'.listen = "exited"
          /\ srv.closed => srv'.closed
          /\ srv'.closed # srv.closed =>
                srv.close = "idle" /\ srv'.close = "stored"
         ]_vars

C22_Witness ==
    /\ srv.listen = "exited"
    /\ srv.listener = "closed"
    /\ \E c \in Conns : wk[c].pc = "waiting"

\* the worker of c has been started and has not returned
InFlight(c) == wk[c].pc \notin {"waiting", "closed"}

\* a step of the worker of c after RequestFromReader has returned
WorkerStep(c) ==
    \/ Worker_Error(c)
    \/ Worker_Handler(c)
    \/ Worker_Write(c)
    \/ Worker_Close(c)

\* C23: neither step of Close changes anything of any worker or
\* connection, and a worker in flight can take its next step whether or not
\* Close has been called, is in progress or has returned (the step calling
\* RequestFromReader is guarded by the worker's position alone); so a worker
\* that has returned has written its one response and closed its connection.
C23_CloseLeavesWorkers ==
    /\ [](\A c \in Conns : InFlight(c) /\ wk[c].pc # "start" => ENABLED WorkerStep(c))
    /\ [](\A c \in Conns : wk[c].pc = "closed" =>
              wk[c].responses = 1 /\ wk[c].sent # <<>> /\ ~wk[c].open)
    /\ [][(srv'.closed # srv.closed \/ srv'.listener # srv.listener
              \/ srv'.close # srv.close) => wk' = wk]_vars

C23_Witness ==
    /\ srv.close = "stored"
    /\ \E c \in Conns : wk[c].pc = "handled"
    /\ \E c \in Conns : wk[c].pc = "start"

\* the request-target in the first line of a stream
TargetOf(s) == Split(Slice(s, 0, Index(s, <<"\r","\n">>)), SP)[2]

\* the responses of the program's handler to a request for target: a status
\* line, the content-type of the handler and the length of the page in
\* either order, a blank line, the page
MainResponses(target) ==
    LET status == IF target = <<"/","y","o","u","r","p","r","o","b","l","e","m">> THEN <<"H","T","T","P","/","1",".","1"," ","4","0","0"," ","B","a","d"," ","R","e","q","u","e","s","t","\r","\n">>
                  ELSE IF target = <<"/","m","y","p","r","o","b","l","e","m">>
                  THEN <<"H","T","T","P","/","1",".","1"," ","5","0","0"," ","I","n","t","e","r","n","a","l"," ","S","e","r","v","e","r"," ","E","r","r","o","r","\r","\n">>
                  ELSE <<"H","T","T","P","/","1",".","1"," ","2","0","0"," ","O","K","\r","\n">>
        page == IF target = <<"/","y","o","u","r","p","r","o","b","l","e","m">> THEN <<"4","0","0"," ","B","a","d"," ","R","e","q","u","e","s","t">>
                ELSE IF target = <<"/","m","y","p","r","o","b","l","e","m">> THEN <<"5","0","0"," ","I","n","t","e","r","n","a","l"," ","S","e","r","v","e","r"," ","E","r","r","o","r">>
                ELSE <<"2","0","0"," ","O","K">>
        type == <<"c","o","n","t","e","n","t","-","t","y","p","e",":"," ","t","e","x","t","/","h","t","m","l","\r","\n">>
        length == <<"c","o","n","t","e","n","t","-","l","e","n","g","t","h",":"," ">> \o Decimal(Len(page)) \o <<"\r","\n">>
    IN  { status \o type \o length \o <<"\r","\n">> \o page,
          status \o length \o type \o <<"\r","\n">> \o page }

\* what is sent for a handler that calls nothing: the default headers alone
SilentResponses ==
    { l[1] \o l[2] \o l[3] \o <<"\r","\n">> :
        l \in {p \in [1..3 -> DefaultLines(<<>>)] :
                 \A x \in DefaultLines(<<>>) : \E i \in 1..3 : p[i] = x} }

\* the serialized responses to what the peer of c sent
ResponsesFor(c) ==
    IF wk[c].ret.err # "nil" THEN ErrorResponses(wk[c].message)
    ELSE IF srv.handler = "silent" THEN SilentResponses
    ELSE MainResponses(TargetOf(wk[c].stream))

\* C24: under every interleaving of two workers, nothing is written to a
\* connection before its own worker writes, and what is written then is
\* exactly a serialized response to the request read from that connection;
\* a step changes the record of at most one worker, and a step of a worker
\* changes nothing of the server.
C24_ConnectionsIsolated ==
    /\ [](\A c \in Conns :
            /\ wk[c].pc \in {"return", "closed"} => wk[c].sent \in ResponsesFor(c)
            /\ wk[c].pc \notin {"return", "closed"} => wk[c].sent = <<>>)
    /\ [][/\ \A c, d \in Conns : (wk'[c] # wk[c] /\ wk'[d] # wk[d]) => c = d
          /\ (\E c \in Conns : wk'[c] # wk[c] /\ wk[c].pc # "waiting") => srv' = srv
         ]_vars

C24_Witness ==
    /\ srv.handler = "main"
    /\ wk["c1"].pc = "return" /\ wk["c1"].sent \in MainResponses(<<"/","y","o","u","r","p","r","o","b","l","e","m">>)
    /\ wk["c2"].pc = "handled" /\ wk["c2"].sent = <<>>
    /\ TargetOf(wk["c2"].stream) = <<"/">>


\* Accept on a closed listener returns an error
AcceptFailsOnceClosed == Listen_AcceptError /\ srv.listener = "closed"

\* the server under a scheduler that lets the acceptor and a caller of Close
\* take their next step, with Accept failing once the listener is closed
SpecServerFair ==
    /\ InitServer
    /\ [][NextServer]_vars
    /\ WF_vars(Listen_Check)
    /\ WF_vars(Close_Listener)
    /\ WF_vars(AcceptFailsOnceClosed)

\* C28: once Close has stored the closed flag the acceptor loop eventually
\* returns, and after it has returned no worker is started.
C28_AcceptorTerminates ==
    /\ srv.closed ~> srv.listen = "exited"
    /\ [][srv.listen = "exited" =>
            /\ srv'.listen = "exited"
            /\ \A c \in Conns : wk[c].pc = "waiting" => wk'[c].pc = "waiting"]_vars

\* the loop has returned with one connection served and one never accepted
C28_Witness ==
    /\ srv.listen = "exited"
    /\ srv.close = "idle"
    /\ wk["c1"].pc = "closed"
    /\ wk["c2"].pc = "waiting"


(***************************************************************************)
(* A header collection under the calls of its methods.                     *)
(***************************************************************************)
MaxHeaderCalls == 4    \* calls made on one collection

\* the names and values given to Get, Set, Add and Delete
HeaderNames == {<<"H","o","s","t">>, <<"h","O","S","T">>, <<"h","o","s","t">>, <<"X","-","a">>}
HeaderValues == {<<"a">>, <<"b">>}

\* the data given to Parse: field lines, a line without a colon, a name
\* with a space, the end of the section, a line not yet terminated
ParseData ==
    { <<"H","O","S","T",":"," ","a","\r","\n">>, <<"x","-","A",":","b"," ","\r","\n","H","o","s","t",":"," ","a","\r","\n">>, <<"H","o","s","t","\r","\n">>, <<"H","o"," ","s","t",":"," ","a","\r","\n">>,
      <<"\r","\n">>, <<"H","o","s","t",":"," ","a">> }

InitHeaders ==
    /\ hd = NewHeaders
    /\ hlast = NoHeadersCall
    /\ ParserIdle
    /\ WriterIdle
    /\ ServerIdle

CallOf(op, name, value) ==
    [op |-> op, pre |-> hd, name |-> name, value |-> value, calls |-> hlast.calls + 1]

Headers_Set ==
    /\ hlast.calls < MaxHeaderCalls
    /\ \E name \in HeaderNames, value \in HeaderValues :
         /\ hd' = Set(hd, name, value)
         /\ hlast' = CallOf("Set", name, value)
    /\ UNCHANGED <<pvars, wvars, svars>>

Headers_Add ==
    /\ hlast.calls < MaxHeaderCalls
    /\ \E name \in HeaderNames, value \in HeaderValues :
         /\ hd' = Add(hd, name, value)
         /\ hlast' = CallOf("Add", name, value)
    /\ UNCHANGED <<pvars, wvars, svars>>

Headers_Delete ==
    /\ hlast.calls < MaxHeaderCalls
    /\ \E name \in HeaderNames :
         /\ hd' = Delete(hd, name)
         /\ hlast' = CallOf("Delete", name, <<>>)
    /\ UNCHANGED <<pvars, wvars, svars>>

Headers_Parse ==
    /\ hlast.calls < MaxHeaderCalls
    /\ \E data \in ParseData :
         /\ hd' = HeadersParse(hd, data).h
         /\ hlast' = CallOf("Parse", data, <<>>)
    /\ UNCHANGED <<pvars, wvars, svars>>

NextHeaders ==
    \/ Headers_Set
    \/ Headers_Add
    \/ Headers_Delete
    \/ Headers_Parse

SpecHeaders == InitHeaders /\ [][NextHeaders]_vars

\* no upper-case letter in s
IsLowerCase(s) == \A i \in 1..Len(s) : s[i] \notin Range(UpperLetters)

\* a letter in the other case, any other byte as it is
SwapCase(c) ==
    IF \E i \in 1..Len(UpperLetters) : UpperLetters[i] = c
    THEN LowerLetters[CHOOSE i \in 1..Len(UpperLetters) : UpperLetters[i] = c]
    ELSE IF \E i \in 1..Len(LowerLetters) : LowerLetters[i] = c
    THEN UpperLetters[CHOOSE i \in 1..Len(LowerLetters) : LowerLetters[i] = c]
    ELSE c

\* the names that differ from name in letter case at most
AllCaseVariants(name) ==
    { [i \in 1..Len(name) |-> IF i \in S THEN SwapCase(name[i]) ELSE name[i]] :
        S \in SUBSET (1..Len(name)) }

\* no stored name is a case variant of name
Absent(h, name) == \A k \in DOMAIN h : k \notin AllCaseVariants(name)

\* the value stored for name before the latest call, under whatever case
StoredBefore(name) ==
    IF Absent(hlast.pre, name) THEN <<>>
    ELSE hlast.pre[CHOOSE k \in DOMAIN hlast.pre : k \in AllCaseVariants(name)]

\* C25: after any sequence of Set, Add, Delete and Parse every stored name
\* is lower case; after Set(n, v) Get of every case variant of n is v; after
\* Delete(n) Get of every case variant of n is empty; after Add(n, v) Get of
\* every case variant of n is v, appended to what was stored for any case
\* variant of n; Get of a name with no case variant stored is empty.
C25_NamesCaseInsensitive ==
    /\ \A k \in DOMAIN hd : IsLowerCase(k)
    /\ hlast.op = "Set" =>
          \A v \in AllCaseVariants(hlast.name) : Get(hd, v) = hlast.value
    /\ hlast.op = "Delete" =>
          \A v \in AllCaseVariants(hlast.name) : Get(hd, v) = <<>>
    /\ hlast.op = "Add" =>
          \A v \in AllCaseVariants(hlast.name) :
              Get(hd, v) = IF Absent(hlast.pre, hlast.name) THEN hlast.value
                           ELSE StoredBefore(hlast.name) \o <<","," ">> \o hlast.value
    /\ \A name \in HeaderNames \cup {<<"a","b","s","e","n","t">>} :
          Absent(hd, name) => Get(hd, name) = <<>>

\* Set under one case, read under another, after a Parse stored a third
C25_Witness ==
    /\ hlast.op = "Set" /\ hlast.name = <<"h","O","S","T">> /\ hlast.value = <<"b">>
    /\ hlast.pre = Set(NewHeaders, <<"h","o","s","t">>, <<"a">>)
    /\ Get(hd, <<"H","O","S","T">>) = <<"b">>
    /\ DOMAIN hd = {<<"h","o","s","t">>}


(***************************************************************************)
(* The read loop and its buffer                                            *)
(***************************************************************************)

\* the bytes offered to parseSingle at the next iteration of parse's loop
Unconsumed == Slice(buf, consumed, readToIndex)

\* the retained residue buf[0:readToIndex]
Residue == Slice(buf, 0, readToIndex)

\* C26: a parseSingle call in state Init or Headers on data without CRLF
\* returns 0 and no error and leaves the request as it was; parse's loop
\* then stops with the same bytes retained at the front of the buffer, and
\* the next read appends to them, so that they are offered again.
C26_AwaitMoreBytes ==
    /\ []((last.called /\ last.pre.State \in {StateInit, StateHeaders}
              /\ ~HasCRLF(last.data)) =>
            /\ last.n = 0
            /\ last.err = "nil"
            /\ last.post = last.pre)
    /\ [][(pc = "parse" /\ rq.State \in {StateInit, StateHeaders}
              /\ ~HasCRLF(Unconsumed)) =>
            /\ rq' = rq
            /\ pc' = "loop"
            /\ Residue' = Unconsumed
            /\ pos' = pos]_vars
    /\ [][(pc = "loop" /\ pc' = "parse") =>
            /\ Slice(buf', 0, readToIndex) = Residue
            /\ Unconsumed' = Residue \o Slice(stream, pos, pos')]_vars

\* a field line not yet terminated is held back for the next read
C26_Witness ==
    /\ last.called /\ last.pre.State = StateHeaders
    /\ ~HasCRLF(last.data) /\ Len(last.data) > 1
    /\ pc = "parse" /\ consumed = 0
    /\ Len(Unconsumed) > Len(last.data)
    /\ Slice(Unconsumed, 0, Len(last.data)) = last.data

\* the bytes read from the stream so far that no parseSingle call has consumed
Unparsed == Slice(stream, pos - (readToIndex - consumed), pos)

\* C29: at every point of the loop 0 <= readToIndex <= len(buf) and the
\* count of bytes parse has consumed is at most readToIndex; the bytes held
\* from that count up to readToIndex are exactly the bytes read from the
\* stream and not yet consumed, each call of parseSingle removing from their
\* front the bytes it reports and each read appending what it delivers; and
\* the buffer changes length only by doubling, when readToIndex is len(buf).
C29_BufferAccounting ==
    /\ [](/\ 0 <= readToIndex /\ readToIndex <= Len(buf)
          /\ 0 <= consumed /\ consumed <= readToIndex
          /\ readToIndex - consumed <= pos
          /\ Unconsumed = Unparsed
          /\ pc = "loop" => consumed = 0)
    /\ [][/\ (pc = "parse" /\ last' # last) =>
                /\ last'.data = Unconsumed
                /\ last'.n <= Len(Unconsumed)
                /\ pos' = pos
                /\ last'.err = "nil" =>
                      Unconsumed' = Slice(Unconsumed, last'.n, Len(Unconsumed))
          /\ pos' # pos =>
                /\ pos' > pos
                /\ Unconsumed' = Unconsumed \o Slice(stream, pos, pos')
          /\ Len(buf') # Len(buf) =>
                /\ Len(buf') = 2 * Len(buf)
                /\ readToIndex = Len(buf)
         ]_vars

\* a grown buffer, partly consumed by the parse in progress
C29_Witness ==
    /\ Len(buf) > InitialBufLen
    /\ pc = "parse"
    /\ 0 < consumed /\ consumed < readToIndex
    /\ readToIndex < Len(buf)

\* the reads the stream can still serve: one per byte left, and the one
\* reporting the end
ReadsLeft == (Len(stream) - pos) + (IF eofSeen THEN 0 ELSE 1)

\* a bound on the steps RequestFromReader can still take: the reads left,
\* each followed by at most one iteration of parse's loop per byte held and
\* one that ends the loop
Rank ==
    ReadsLeft * (Len(stream) + 2)
        + (IF pc = "parse" THEN (readToIndex - consumed) + 1 ELSE 0)

\* C30: while RequestFromReader has not returned it can take a step (it is
\* about to call parseSingle, which returns for every input, or it can
\* read, leave parse's loop or return), and every step either returns or lowers a bound that is never negative: a
\* read lowers the reads left, and an iteration of parse's loop consumes at
\* least one byte or ends the loop. So it returns after finitely many reads
\* and parse's loop ends.
C30_ReadLoopTerminates ==
    /\ [](Rank >= 0)
    /\ [](pc # "returned" =>
            \/ pc = "parse" /\ rq.State # StateDone
            \/ ENABLED (ReadEOF \/ Return \/ ParseExit))
    /\ [][pc # "returned" =>
            /\ pc' = "returned" \/ Rank' < Rank
            /\ (pc = "parse" /\ pc' = "parse") => consumed' > consumed
            /\ pos' # pos => (pc = "loop" /\ pc' = "parse" /\ pos' > pos)]_vars

\* returned after the end of the stream was reported, every byte read
C30_Witness ==
    /\ pc = "returned"
    /\ eofSeen
    /\ pos = Len(stream)
    /\ Rank = 0
    /\ Len(stream) > InitialBufLen
    /\ ~byteWise

=============================================================================
